---- MODULE Spec2Model ----
(***************************************************************************)
(* Response normalisation and engagement metric of the social-media        *)
(* aggregator: the Instagram, TikTok and YouTube extractors                *)
(* (src/instagram_api.py, src/tiktok_api.py, src/youtube_api.py) and the   *)
(* process_* functions that unwrap a response envelope; the YouTube        *)
(* engagement rate of src/csv_exporter.py and src/terminal_ui.py; the      *)
(* non-interactive run of src/main.py with src/platform_handler.py; the    *)
(* edits of config.json (src/config_handler.py), the interactive menu      *)
(* (src/menu_handler.py) with the SIGINT handler of src/main.py, the loop  *)
(* of process_platform_accounts over the accounts, and the time frame of   *)
(* a YouTube run.                                                          *)
(*                                                                         *)
(* A behaviour is one operation: Init draws the operation and its          *)
(* argument, the operation's action computes its outcome (a return value   *)
(* or a raised exception).  An extractor or process_* function may be      *)
(* called again on the same argument; a YouTube record goes on to the CSV  *)
(* export and the terminal table; main makes its calls of search_platform  *)
(* and process_platform_accounts one after the other; config_handler is    *)
(* called a number of times; the menu goes from prompt to prompt, Ctrl+C   *)
(* pressed at any of them; the accounts are processed one turn of the      *)
(* loop at a time; get_time_frame_info gives the cutoff that               *)
(* get_channel_videos then applies.                                        *)
(*                                                                         *)
(* Representation.                                                         *)
(*  - A JSON value held by a count field is a record [k, n, s]: k is the   *)
(*    kind ("absent": the key is missing, "null": None, "int", "str"),     *)
(*    n the integer of an "int", s the characters of a "str".              *)
(*  - A Python float is a pair [m, e], significand and exponent of an      *)
(*    IEEE-754 binary64 with round-half-even, as CPython's / and * on      *)
(*    float compute.                                                       *)
(*  - engagement_rate is held in hundredths (6.25 is 625): round(x, 2)     *)
(*    returns the double nearest to h/100, so two rates are equal exactly  *)
(*    when their hundredths h are.                                         *)
(*  - A string that is only copied (a username, a caption, a URL) is a     *)
(*    TLA+ string, NoKey when the key is missing; a string that is parsed  *)
(*    or rendered (a count, a date) is a sequence of characters.           *)
(*  - An integer beyond TLC's 32 bits is held by its magnitude: [k |->     *)
(*    "big", n |-> e] is 10^e.                                             *)
(***************************************************************************)
EXTENDS Integers, Sequences, FiniteSets, TLC

VARIABLES
    op,             \* the function called
    status,         \* "ready" before the call, then "returned" or "raised"
    exc,            \* the exception raised ("" when none)
    reel,           \* argument of extract_reel_data
    video,          \* argument of extract_video_data
    video_data,     \* one item of video_response["items"] (YouTube)
    response_data,  \* argument of process_*: the live object, mutated in place
    passed,         \* response_data as it was when the call was made
    record,         \* the dict an extractor returned
    records,        \* the list a process_* function returned
    utcoffset,      \* the local time zone of the process, seconds east of UTC
    youtube_engagement, \* the engagement rate of the YouTube record, by
                        \* the module that calculated it
    calls,          \* the number of calls that have ended
    first,          \* how the first call ended
    args,           \* main: the parsed command line
    config,         \* main: the accounts of config.json
    todo,           \* main: the calls of search_platform and
                    \* process_platform_accounts still to be made
    saved,          \* main: the JSON files written, with their directory
    config_json,    \* the dict that config.json holds
    previous,       \* config.json as it was when the last call of
                    \* config_handler was made
    request,        \* the last call of config_handler: function, platform
                    \* and usernames
    result,         \* what that call returned, and whether it wrote
                    \* config.json
    changes,        \* the number of calls of config_handler made
    handler,        \* the handler of SIGINT: ctrl_c_handler once main has
                    \* installed it, else Python's default_int_handler
    menu,           \* interactive_menu: the prompt or operation it is at,
                    \* with the platform and the usernames in hand
    pressed,        \* interactive_menu: what the user did last
    responses,      \* process_platform_accounts: what the provider answers
                    \* for each account of the list
    events,         \* process_platform_accounts: the fetches, the delays
                    \* and the files written, in the order they happened
    now,            \* get_time_frame_info: datetime.now(timezone.utc)
    published_after, \* the cutoff that get_time_frame_info returned
    video_response  \* get_channel_videos: the items of video_response

vars == <<op, status, exc, reel, video, video_data, response_data, passed,
          record, records, utcoffset, youtube_engagement, calls, first,
          args, config, todo, saved, config_json, previous, request, result,
          changes, handler, menu, pressed, responses, events, now,
          published_after, video_response>>

\* the state of the configuration file and of the calls that edit it
configuration == <<config_json, previous, request, result, changes>>

\* the state of the interactive menu, and of the loop over the accounts
interactive == <<handler, menu, pressed>>

accounts_loop == <<responses, events>>

\* the state of the time frame of a YouTube run
cutoff == <<now, published_after, video_response>>

\* the state of the extractors, the processors and the non-interactive run
extraction == <<reel, video, video_data, response_data, passed, record,
                records, utcoffset, youtube_engagement, first, args, todo,
                saved>>

(***************************************************************************)
(* Bounds of the model.                                                    *)
(***************************************************************************)
\* largest integer count drawn for a raw field
MaxCount == 160
\* longest item list drawn for an envelope
MaxItems == 2
\* largest power of ten drawn for a timestamp
MaxExponent == 19
\* how many times the function is called on the same argument
MaxCalls == 2

\* the longest list of accounts processed
MaxAccounts == 3

\* the most calls of config_handler in a behaviour
MaxChanges == 2

(***************************************************************************)
(* JSON values.                                                            *)
(***************************************************************************)
Absent == [k |-> "absent", n |-> 0, s |-> <<>>]
Null == [k |-> "null", n |-> 0, s |-> <<>>]
IntV(i) == [k |-> "int", n |-> i, s |-> <<>>]
StrV(chars) == [k |-> "str", n |-> 0, s |-> chars]
\* the int 10^e, for e >= 10
BigV(e) == [k |-> "big", n |-> e, s |-> <<>>]

DigitChars == <<"0", "1", "2", "3", "4", "5", "6", "7", "8", "9">>

IsDigitChar(c) == \E d \in 1..10 : DigitChars[d] = c

DigitOf(c) == (CHOOSE d \in 1..10 : DigitChars[d] = c) - 1

\* str.isdigit(): non-empty and every character a digit
IsDigit(chars) == Len(chars) > 0 /\ \A i \in 1..Len(chars) : IsDigitChar(chars[i])

\* the integer a digit string denotes (int(s) on a string of digits)
RECURSIVE ParseDigits(_)
ParseDigits(chars) ==
    IF chars = <<>> THEN 0
    ELSE 10 * ParseDigits(SubSeq(chars, 1, Len(chars) - 1))
         + DigitOf(chars[Len(chars)])

\* Python truthiness of a JSON value: None, 0 and "" are falsy
Truthy(v) ==
    CASE v.k = "null" -> FALSE
      [] v.k = "int" -> v.n # 0
      [] v.k = "str" -> v.s # <<>>
      [] OTHER -> FALSE

\* int(x) for x an int or a str of the model: [raised, exc, v]
PyInt(v) ==
    CASE v.k = "int" -> [raised |-> FALSE, exc |-> "", v |-> v.n]
      [] v.k = "str" /\ IsDigit(v.s) ->
            [raised |-> FALSE, exc |-> "", v |-> ParseDigits(v.s)]
      [] v.k = "str" -> [raised |-> TRUE, exc |-> "ValueError", v |-> 0]
      [] OTHER -> [raised |-> TRUE, exc |-> "TypeError", v |-> 0]

\* int(x or 0)
IntOrZero(v) == IF Truthy(v) THEN PyInt(v) ELSE PyInt(IntV(0))

(***************************************************************************)
(* binary64 arithmetic on positive values: a / b on ints, x * 100, and     *)
(* round(x, 2).  A significand does not fit TLC's 32-bit integers, so a    *)
(* natural number is a sequence of limbs (digits in base 2^13), least      *)
(* significant first, without leading zero limbs; a float is [m, e] with   *)
(* value m * 2^e and 2^52 <= m < 2^53.                                     *)
(***************************************************************************)
Precision == 53

RECURSIVE Pow2(_)
Pow2(n) == IF n = 0 THEN 1 ELSE 2 * Pow2(n - 1)

LimbBits == Precision \div 4

Base == Pow2(LimbBits)

RECURSIVE IntToBig(_)
IntToBig(n) == IF n = 0 THEN <<>> ELSE <<n % Base>> \o IntToBig(n \div Base)

RECURSIVE BigToInt(_)
BigToInt(N) == IF N = <<>> THEN 0 ELSE N[1] + Base * BigToInt(Tail(N))

\* number of bits of a small integer
BitLenInt(n) == IF n = 0 THEN 0 ELSE CHOOSE i \in 1..31 : Pow2(i - 1) <= n /\ n < 2 * Pow2(i - 1)

BitLen(N) == IF N = <<>> THEN 0 ELSE LimbBits * (Len(N) - 1) + BitLenInt(N[Len(N)])

\* N * c + carry, for small c and carry
RECURSIVE MulAdd(_, _, _)
MulAdd(N, c, carry) ==
    IF N = <<>> THEN IntToBig(carry)
    ELSE LET t == N[1] * c + carry
         IN <<t % Base>> \o MulAdd(Tail(N), c, t \div Base)

\* N * 2^n
RECURSIVE ShiftLeft(_, _)
ShiftLeft(N, n) ==
    IF n = 0 THEN N
    ELSE IF n >= LimbBits THEN ShiftLeft(MulAdd(N, Base, 0), n - LimbBits)
    ELSE MulAdd(N, Pow2(n), 0)

\* N divided by a small d: [q, r], from the most significant limb down
RECURSIVE DivSmallFrom(_, _, _, _)
DivSmallFrom(N, d, i, r) ==
    IF i = 0 THEN [q |-> <<>>, r |-> r]
    ELSE LET t == r * Base + N[i]
             low == DivSmallFrom(N, d, i - 1, t % d)
         IN [q |-> Append(low.q, t \div d), r |-> low.r]

RECURSIVE Normal(_)
Normal(N) ==
    IF N = <<>> \/ N[Len(N)] # 0 THEN N ELSE Normal(SubSeq(N, 1, Len(N) - 1))

DivSmall(N, d) ==
    LET res == DivSmallFrom(N, d, Len(N), 0)
    IN [q |-> Normal(res.q), r |-> res.r]

\* N shifted right by n bits: [q, half, sticky], half the last bit shifted
\* out, sticky whether any bit shifted out before it was 1
RECURSIVE ShiftRight(_, _, _, _)
ShiftRight(N, n, half, sticky) ==
    IF n = 0 THEN [q |-> N, half |-> half, sticky |-> sticky]
    ELSE LET step == IF n >= LimbBits THEN LimbBits ELSE n
             d == DivSmall(N, Pow2(step))
             top == Pow2(step - 1)
         IN ShiftRight(d.q, n - step, IF d.r >= top THEN 1 ELSE 0,
                       sticky \/ half = 1 \/ d.r % top # 0)

\* the float of an integer quotient q with the rounding decision up, at
\* exponent e: q + 1 may carry into a 54th bit
Rounded(q, up, e) ==
    LET q1 == MulAdd(q, 1, 1)
    IN IF ~up THEN [m |-> q, e |-> e]
       ELSE IF BitLen(q1) > Precision
            THEN [m |-> DivSmall(q1, 2).q, e |-> e + 1]
            ELSE [m |-> q1, e |-> e]

\* a / b for ints a > 0, b > 0 (true division, correctly rounded, ties to
\* even)
FloatDiv(a, b) ==
    LET k == IF a >= b
             THEN CHOOSE i \in 0..30 : Pow2(i) <= a \div b /\ a \div b < Pow2(i + 1)
             ELSE -(CHOOSE j \in 1..30 : a * Pow2(j) >= b /\ a * Pow2(j - 1) < b)
        s == (Precision - 1) - k
        d == DivSmall(ShiftLeft(IntToBig(a), s), b)
        up == 2 * d.r > b \/ (2 * d.r = b /\ d.q[1] % 2 = 1)
    IN Rounded(d.q, up, -s)

\* x * 100 on a float
FloatTimesHundred(x) ==
    LET p == MulAdd(x.m, 100, 0)
        drop == BitLen(p) - Precision
        sh == ShiftRight(p, drop, 0, FALSE)
        up == sh.half = 1 /\ (sh.sticky \/ sh.q[1] % 2 = 1)
    IN Rounded(sh.q, up, x.e + drop)

\* round(x, 2) in hundredths, for a float 0 < x < 2^52: the exact value of
\* x is rounded to two decimals, ties to even
Round2(x) ==
    LET p == MulAdd(x.m, 100, 0)
        sh == ShiftRight(p, -x.e, 0, FALSE)
        whole == BigToInt(sh.q)
        up == sh.half = 1 /\ (sh.sticky \/ whole % 2 = 1)
    IN IF up THEN whole + 1 ELSE whole

(***************************************************************************)
(* Outcomes of a call.                                                     *)
(***************************************************************************)
NoRecord == <<>>

Return(rec) == [raised |-> FALSE, exc |-> "", rec |-> rec]

Raise(e) == [raised |-> TRUE, exc |-> e, rec |-> NoRecord]

\* a key that a mapping does not hold (for string-valued fields)
NoKey == "<absent>"

(***************************************************************************)
(* The engagement rate, as all extractors compute it                       *)
(* (instagram_api.py 218-226, tiktok_api.py 212-220): in hundredths.       *)
(* 0 / views is 0.0, and 0.0 * 100 rounds to 0.0.                          *)
(***************************************************************************)
EngagementRate(likes, comments, shares, views) ==
    IF views > 0
    THEN LET engagement == likes + comments + shares
         IN IF engagement = 0 THEN 0
            ELSE Round2(FloatTimesHundred(FloatDiv(engagement, views)))
    ELSE 0

(***************************************************************************)
(* TikTok dates (tiktok_api.py 192-210): int(x), then                      *)
(* datetime.datetime.fromtimestamp(timestamp).isoformat().                 *)
(* fromtimestamp gives the local time, here the UTC time shifted by the    *)
(* fixed utcoffset of the process; isoformat renders it as                 *)
(* YYYY-MM-DDTHH:MM:SS.                                                    *)
(***************************************************************************)
\* the proleptic Gregorian date of a day number (days since 1970-01-01),
\* by 400-year eras that start on 1 March
YearOfEra(doe) ==
    (doe - doe \div 1460 + doe \div 36524 - doe \div 146096) \div 365

DayOfYear(doe, yoe) == doe - (365 * yoe + yoe \div 4 - yoe \div 100)

MonthFromMarch(doy) == (5 * doy + 2) \div 153

CivilOf(era, yoe, doy, mp) ==
    [year |-> yoe + era * 400 + (IF mp >= 10 THEN 1 ELSE 0),
     month |-> IF mp < 10 THEN mp + 3 ELSE mp - 9,
     day |-> doy - (153 * mp + 2) \div 5 + 1]

CivilInEra(era, doe) ==
    CivilOf(era, YearOfEra(doe), DayOfYear(doe, YearOfEra(doe)),
            MonthFromMarch(DayOfYear(doe, YearOfEra(doe))))

CivilFromDays(days) ==
    CivilInEra((days + 719468) \div 146097, (days + 719468) % 146097)

\* n in decimal, zero-padded to width w
\* the day number of a civil date, the inverse of CivilFromDays
DayOfEra(yoe, mp, d) ==
    yoe * 365 + yoe \div 4 - yoe \div 100 + (153 * mp + 2) \div 5 + d - 1

DaysOfYearFromMarch(y, mp, d) ==
    (y \div 400) * 146097 + DayOfEra(y % 400, mp, d) - 719468

DaysFromCivil(y, m, d) ==
    DaysOfYearFromMarch(IF m <= 2 THEN y - 1 ELSE y, (m + 9) % 12, d)

Digits(n, w) == [i \in 1..w |-> DigitChars[((n \div 10 ^ (w - i)) % 10) + 1]]

IsoDate(civil) ==
    Digits(civil.year, 4) \o <<"-">> \o Digits(civil.month, 2) \o <<"-">>
        \o Digits(civil.day, 2)

IsoTime(secs) ==
    Digits(secs \div 3600, 2) \o <<":">> \o Digits((secs \div 60) % 60, 2)
        \o <<":">> \o Digits(secs % 60, 2)

\* isoformat() of the naive datetime local seconds after 1970-01-01T00:00:00
IsoFormat(local) ==
    IsoDate(CivilFromDays(local \div 86400)) \o <<"T">> \o IsoTime(local % 86400)

\* int(x) of a time field: an int, a digit string, or a big int
TimestampInt(v) ==
    IF v.k = "big" THEN [raised |-> FALSE, exc |-> "", v |-> 0] ELSE PyInt(v)

\* fromtimestamp(timestamp).isoformat() on Linux, for the timestamps of the
\* model: 10^e has a year beyond 9999 (ValueError) up to e = 16, a year
\* that localtime cannot hold (OSError, EOVERFLOW) for e = 17 and 18, and
\* does not fit time_t (OverflowError) from e = 19
FromTimestamp(v, timestamp) ==
    IF timestamp.raised THEN Raise(timestamp.exc)
    ELSE IF v.k = "big"
    THEN IF v.n <= 16 THEN Raise("ValueError")
         ELSE IF v.n <= 18 THEN Raise("OSError")
         ELSE Raise("OverflowError")
    ELSE Return(StrV(IsoFormat(timestamp.v + utcoffset)))

\* try: ... except (ValueError, TypeError): pass
ExceptValueOrTypeError(out) ==
    IF out.raised /\ out.exc \in {"ValueError", "TypeError"}
    THEN Return(StrV(<<>>))
    ELSE out

(***************************************************************************)
(* Instagram: extract_reel_data (instagram_api.py 155-228).                *)
(* A reel is [user, caption, play_count, ig_play_count, like_count,        *)
(* reshare_count, share_count, comment_count, code, taken_at_date]; user   *)
(* is [k, username] and caption [k, text] with k "absent", "null" or       *)
(* "dict"; code and taken_at_date are strings.                             *)
(***************************************************************************)
Has(v) == v.k # "absent"

ReelUsername(r) ==
    IF r.user.k = "absent" THEN Return("")
    ELSE IF r.user.k = "null" THEN Raise("TypeError")
    ELSE IF r.user.username # NoKey THEN Return(r.user.username)
    ELSE Return("")

ReelViewCount(r) ==
    IF Has(r.play_count) THEN IntOrZero(r.play_count)
    ELSE IF Has(r.ig_play_count) THEN IntOrZero(r.ig_play_count)
    ELSE PyInt(IntV(0))

ReelLikeCount(r) ==
    IF Has(r.like_count) THEN IntOrZero(r.like_count) ELSE PyInt(IntV(0))

ReelShareCount(r) ==
    IF Has(r.reshare_count) THEN IntOrZero(r.reshare_count)
    ELSE IF Has(r.share_count) THEN IntOrZero(r.share_count)
    ELSE PyInt(IntV(0))

ReelCommentCount(r) ==
    IF Has(r.comment_count) THEN IntOrZero(r.comment_count)
    ELSE PyInt(IntV(0))

\* lines 182-184
ReelCaption(r) ==
    IF r.caption.k = "dict" /\ r.caption.text # NoKey THEN r.caption.text ELSE ""

\* lines 210-212
ReelUrl(r) ==
    IF r.code # NoKey THEN "https://www.instagram.com/reel/" \o r.code \o "/"
    ELSE ""

\* lines 214-216
ReelUploadDate(r) == IF r.taken_at_date # NoKey THEN r.taken_at_date ELSE ""

\* the record, or the first exception, in statement order
ReelRecord(r, username, view, like, share, comment) ==
    IF username.raised THEN Raise(username.exc)
    ELSE IF view.raised THEN Raise(view.exc)
    ELSE IF like.raised THEN Raise(like.exc)
    ELSE IF share.raised THEN Raise(share.exc)
    ELSE IF comment.raised THEN Raise(comment.exc)
    ELSE Return([username |-> username.rec,
                 caption |-> ReelCaption(r),
                 url |-> ReelUrl(r),
                 upload_date |-> ReelUploadDate(r),
                 view_count |-> IntV(view.v),
                 like_count |-> IntV(like.v),
                 share_count |-> IntV(share.v),
                 comment_count |-> IntV(comment.v),
                 engagement_rate |->
                     EngagementRate(like.v, comment.v, share.v, view.v)])

extract_reel_data(r) ==
    ReelRecord(r, ReelUsername(r), ReelViewCount(r), ReelLikeCount(r),
               ReelShareCount(r), ReelCommentCount(r))

(***************************************************************************)
(* TikTok: extract_video_data (tiktok_api.py 85-222).                      *)
(* A video is [author, authorMeta, username, statistics, stats, diggCount, *)
(* likes, commentCount, comments, shareCount, shares, playCount, views,    *)
(* description, desc, text, download_url, video, webVideoUrl, shareUrl,    *)
(* video_id, id, create_time, createTime, createTimeISO]:                  *)
(* author is [k, s, uniqueId, username] (k "absent", "null", "str",        *)
(* "dict"), authorMeta is [k, name], statistics and stats are [k, ...] with*)
(* k "absent", "null" or "dict" and one value per key.                     *)
(***************************************************************************)
\* lines 108-118
VideoUsername(vid) ==
    IF vid.author.k = "dict" /\ vid.author.uniqueId # NoKey
    THEN Return(vid.author.uniqueId)
    ELSE IF vid.author.k = "dict" /\ vid.author.username # NoKey
    THEN Return(vid.author.username)
    ELSE IF vid.author.k = "str" THEN Return(vid.author.s)
    ELSE IF vid.authorMeta.k = "null" THEN Raise("TypeError")
    ELSE IF vid.authorMeta.k = "dict" /\ vid.authorMeta.name # NoKey
    THEN Return(vid.authorMeta.name)
    ELSE IF vid.username # NoKey THEN Return(vid.username)
    ELSE Return("")

\* one if/elif chain of lines 128-174: "statistics" in video and <number_of>
\* in video["statistics"], then "stats" in video and <camel> in
\* video["stats"], then <plural> in video["stats"], then the top-level
\* <camel> and <plural>; the value found is stored as it is
\* a faulty variant of the chain: inside stats the plural key is tested
\* before the camelCase key
CountChainPluralFirst(vid, number_of, camel, plural) ==
    IF vid.statistics.k = "null" THEN Raise("TypeError")
    ELSE IF vid.statistics.k = "dict" /\ Has(vid.statistics[number_of])
    THEN Return(vid.statistics[number_of])
    ELSE IF vid.stats.k = "null" THEN Raise("TypeError")
    ELSE IF vid.stats.k = "dict" /\ Has(vid.stats[plural])
    THEN Return(vid.stats[plural])
    ELSE IF vid.stats.k = "dict" /\ Has(vid.stats[camel])
    THEN Return(vid.stats[camel])
    ELSE IF Has(vid[camel]) THEN Return(vid[camel])
    ELSE IF Has(vid[plural]) THEN Return(vid[plural])
    ELSE Return(IntV(0))

CountChain(vid, number_of, camel, plural) ==
    IF vid.statistics.k = "null" THEN Raise("TypeError")
    ELSE IF vid.statistics.k = "dict" /\ Has(vid.statistics[number_of])
    THEN Return(vid.statistics[number_of])
    ELSE IF vid.stats.k = "null" THEN Raise("TypeError")
    ELSE IF vid.stats.k = "dict" /\ Has(vid.stats[camel])
    THEN Return(vid.stats[camel])
    ELSE IF vid.stats.k = "dict" /\ Has(vid.stats[plural])
    THEN Return(vid.stats[plural])
    ELSE IF Has(vid[camel]) THEN Return(vid[camel])
    ELSE IF Has(vid[plural]) THEN Return(vid[plural])
    ELSE Return(IntV(0))

VideoLikes(vid) == CountChain(vid, "number_of_hearts", "diggCount", "likes")

VideoComments(vid) ==
    CountChain(vid, "number_of_comments", "commentCount", "comments")

VideoShares(vid) == CountChain(vid, "number_of_reposts", "shareCount", "shares")

VideoViews(vid) == CountChain(vid, "number_of_plays", "playCount", "views")

\* lines 120-126
VideoCaption(vid) ==
    IF vid.description # NoKey THEN vid.description
    ELSE IF vid.desc # NoKey THEN vid.desc
    ELSE IF vid.text # NoKey THEN vid.text
    ELSE ""

\* str(x) of an identifier inside the f-string
RECURSIVE Join(_)
Join(chars) ==
    IF chars = <<>> THEN "" ELSE Head(chars) \o Join(Tail(chars))

Format(v) ==
    CASE v.k = "int" -> ToString(v.n)
      [] v.k = "str" -> Join(v.s)
      [] OTHER -> "None"

ComposedUrl(username, id) ==
    "https://www.tiktok.com/@" \o username \o "/video/" \o Format(id)

\* lines 176-190; `"playAddr" in video["video"]` raises TypeError on None
VideoUrl(vid, username) ==
    IF vid.download_url # NoKey THEN Return(vid.download_url)
    ELSE IF vid.video.k = "null" THEN Raise("TypeError")
    ELSE IF vid.video.k = "dict" /\ vid.video.playAddr # NoKey
    THEN Return(vid.video.playAddr)
    ELSE IF vid.webVideoUrl # NoKey THEN Return(vid.webVideoUrl)
    ELSE IF vid.shareUrl # NoKey THEN Return(vid.shareUrl)
    ELSE IF Has(vid.video_id) THEN Return(ComposedUrl(username, vid.video_id))
    ELSE IF Has(vid.id) THEN Return(ComposedUrl(username, vid.id))
    ELSE Return("")

\* lines 192-210
VideoUploadDate(vid) ==
    IF Has(vid.create_time)
    THEN ExceptValueOrTypeError(
             FromTimestamp(vid.create_time, TimestampInt(vid.create_time)))
    ELSE IF Has(vid.createTime)
    THEN ExceptValueOrTypeError(
             FromTimestamp(vid.createTime, TimestampInt(vid.createTime)))
    ELSE IF Has(vid.createTimeISO) THEN Return(vid.createTimeISO)
    ELSE Return(StrV(<<>>))

\* lines 212-220 on the stored values: views > 0 raises TypeError on None
\* and on a str, and so does the sum of a non-int with an int (two strs
\* concatenate, and the division of the str by views raises)
VideoEngagement(likes, comments, shares, views) ==
    IF views.k # "int" THEN Raise("TypeError")
    ELSE IF views.n > 0
    THEN IF likes.k = "int" /\ comments.k = "int" /\ shares.k = "int"
         THEN Return(EngagementRate(likes.n, comments.n, shares.n, views.n))
         ELSE Raise("TypeError")
    ELSE Return(0)

\* a faulty variant of the record: the "shares" entry of the defaults is
\* missing
VideoRecordWithoutShares(username, likes, comments, shares, views, rate, texts) ==
    IF username.raised THEN Raise(username.exc)
    ELSE IF likes.raised THEN Raise(likes.exc)
    ELSE IF comments.raised THEN Raise(comments.exc)
    ELSE IF shares.raised THEN Raise(shares.exc)
    ELSE IF views.raised THEN Raise(views.exc)
    ELSE IF texts.url.raised THEN Raise(texts.url.exc)
    ELSE IF texts.upload_date.raised THEN Raise(texts.upload_date.exc)
    ELSE IF rate.raised THEN Raise(rate.exc)
    ELSE Return([username |-> username.rec,
                 caption |-> texts.caption,
                 likes |-> likes.rec,
                 comments |-> comments.rec,
                 views |-> views.rec,
                 url |-> texts.url.rec,
                 upload_date |-> texts.upload_date.rec,
                 engagement_rate |-> rate.rec])

\* the record, or the first exception, in statement order
VideoRecord(username, likes, comments, shares, views, rate, texts) ==
    IF username.raised THEN Raise(username.exc)
    ELSE IF likes.raised THEN Raise(likes.exc)
    ELSE IF comments.raised THEN Raise(comments.exc)
    ELSE IF shares.raised THEN Raise(shares.exc)
    ELSE IF views.raised THEN Raise(views.exc)
    ELSE IF texts.url.raised THEN Raise(texts.url.exc)
    ELSE IF texts.upload_date.raised THEN Raise(texts.upload_date.exc)
    ELSE IF rate.raised THEN Raise(rate.exc)
    ELSE Return([username |-> username.rec,
                 caption |-> texts.caption,
                 likes |-> likes.rec,
                 comments |-> comments.rec,
                 shares |-> shares.rec,
                 views |-> views.rec,
                 url |-> texts.url.rec,
                 upload_date |-> texts.upload_date.rec,
                 engagement_rate |-> rate.rec])

\* caption, url and upload_date of the record
VideoTexts(vid, username) ==
    [caption |-> VideoCaption(vid),
     url |-> VideoUrl(vid, username.rec),
     upload_date |-> VideoUploadDate(vid)]

VideoCounts(vid, username, likes, comments, shares, views) ==
    VideoRecord(username, likes, comments, shares, views,
                VideoEngagement(likes.rec, comments.rec, shares.rec, views.rec),
                VideoTexts(vid, username))

extract_video_data(vid) ==
    VideoCounts(vid, VideoUsername(vid), VideoLikes(vid), VideoComments(vid),
                VideoShares(vid), VideoViews(vid))

(***************************************************************************)
(* YouTube: the record built for one item of video_response["items"] in    *)
(* get_channel_videos (youtube_api.py 198-213) and search_videos (343-361).*)
(* video_data is [id, snippet, statistics]: id a string, snippet [k, title, *)
(* publishedAt, channelTitle] with k "absent" or "dict", statistics        *)
(* [viewCount, likeCount, commentCount].                                   *)
(***************************************************************************)
\* d[key] on a mapping: KeyError when the key is missing
Subscript(v) == IF v = NoKey THEN Raise("KeyError") ELSE Return(v)

\* video_data["snippet"][key]
SnippetField(vd, key) ==
    IF vd.snippet.k = "absent" THEN Raise("KeyError")
    ELSE Subscript(vd.snippet[key])

\* line 203
YouTubeUrl(id) ==
    IF id.raised THEN id
    ELSE Return("https://www.youtube.com/watch?v=" \o id.rec)

\* get_channel_videos, line 155: the title of the channel of the call
ChannelTitle == "channel"

\* search_videos, lines 330-331: the channel titles of the search results,
\* by video id
ChannelTitles == [i \in {"v1"} |-> "found"]

\* search_videos, line 351
SearchChannelTitle(vd) ==
    IF vd.id = NoKey \/ vd.snippet.k = "absent" THEN Raise("KeyError")
    ELSE IF vd.id \in DOMAIN ChannelTitles THEN Return(ChannelTitles[vd.id])
    ELSE IF vd.snippet.channelTitle # NoKey THEN Return(vd.snippet.channelTitle)
    ELSE Return("Unknown Channel")

\* url, channelTitle, title and publishedAt of the record
YouTubeTexts(vd, channel_title) ==
    [url |-> YouTubeUrl(Subscript(vd.id)),
     channelTitle |-> channel_title,
     title |-> SnippetField(vd, "title"),
     publishedAt |-> SnippetField(vd, "publishedAt")]

\* statistics.get(key, default), then int(x) if x.isdigit() else 0; isdigit
\* is a method of str only
DigitCount(v, default) ==
    LET x == IF Has(v) THEN v ELSE default
    IN IF x.k # "str" THEN Raise("AttributeError")
       ELSE IF IsDigit(x.s) THEN Return(ParseDigits(x.s))
       ELSE Return(0)

\* csv_exporter.calculate_youtube_engagement, lines 136-147, on a record of
\* integer counts: in hundredths
csv_calculate_youtube_engagement(rd) ==
    IF rd.viewCount.n > 0
    THEN LET engagement_sum == rd.likeCount.n + rd.commentCount.n
         IN IF engagement_sum = 0 THEN 0
            ELSE Round2(FloatTimesHundred(FloatDiv(engagement_sum,
                                                   rd.viewCount.n)))
    ELSE 0

\* terminal_ui.calculate_youtube_engagement, lines 643-654
ui_calculate_youtube_engagement(rd) ==
    IF rd.viewCount.n > 0
    THEN LET engagement_sum == rd.likeCount.n + rd.commentCount.n
         IN IF engagement_sum = 0 THEN 0
            ELSE Round2(FloatTimesHundred(FloatDiv(engagement_sum,
                                                   rd.viewCount.n)))
    ELSE 0

\* the record, or the first exception, in evaluation order
YouTubeRecord(view_count, like_count, comment_count, texts) ==
    IF view_count.raised THEN Raise(view_count.exc)
    ELSE IF texts.url.raised THEN Raise(texts.url.exc)
    ELSE IF texts.channelTitle.raised THEN Raise(texts.channelTitle.exc)
    ELSE IF texts.title.raised THEN Raise(texts.title.exc)
    ELSE IF like_count.raised THEN Raise(like_count.exc)
    ELSE IF comment_count.raised THEN Raise(comment_count.exc)
    ELSE IF texts.publishedAt.raised THEN Raise(texts.publishedAt.exc)
    ELSE Return([channelTitle |-> texts.channelTitle.rec,
                 title |-> texts.title.rec,
                 viewCount |-> IntV(view_count.rec),
                 likeCount |-> IntV(like_count.rec),
                 commentCount |-> IntV(comment_count.rec),
                 publishedAt |-> texts.publishedAt.rec,
                 url |-> texts.url.rec])

youtube_video_record(vd, channel_title) ==
    YouTubeRecord(DigitCount(vd.statistics.viewCount, StrV(<<"0">>)),
                  DigitCount(vd.statistics.likeCount, StrV(<<>>)),
                  DigitCount(vd.statistics.commentCount, StrV(<<>>)),
                  YouTubeTexts(vd, channel_title))

(***************************************************************************)
(* Instagram: process_user_reels (instagram_api.py 230-254) and            *)
(* process_search_reels (256-280), the same code.                          *)
(* response_data is [error, data]: error whether the key is present, data  *)
(* [k, items] with k "absent", "null", "int", "str" (a string that does    *)
(* not contain "items") or "dict", items [k, list] with k "absent", "null" *)
(* or "list".                                                              *)
(***************************************************************************)
\* the for loop over reels: the first extraction that raises ends the call
FirstOf(bad) == CHOOSE i \in bad : \A j \in bad : i <= j

Raising(outs) == {i \in 1..Len(outs) : outs[i].raised}

LoopOutcome(outs) ==
    IF Raising(outs) # {} THEN Raise(outs[FirstOf(Raising(outs))].exc)
    ELSE Return([i \in 1..Len(outs) |-> outs[i].rec])

ReelsLoop(reels) ==
    LoopOutcome([i \in 1..Len(reels) |-> extract_reel_data(reels[i])])

process_user_reels(rd) ==
    IF rd.error THEN Return(<<>>)
    ELSE IF rd.data.k = "absent" THEN Return(<<>>)
    ELSE IF rd.data.k \in {"null", "int"} THEN Raise("TypeError")
    ELSE IF rd.data.k = "str" THEN Return(<<>>)
    ELSE IF rd.data.items.k = "absent" THEN Return(<<>>)
    ELSE IF rd.data.items.k = "null" THEN Raise("TypeError")
    ELSE ReelsLoop(rd.data.items.list)

process_search_reels(rd) ==
    IF rd.error THEN Return(<<>>)
    ELSE IF rd.data.k = "absent" THEN Return(<<>>)
    ELSE IF rd.data.k \in {"null", "int"} THEN Raise("TypeError")
    ELSE IF rd.data.k = "str" THEN Return(<<>>)
    ELSE IF rd.data.items.k = "absent" THEN Return(<<>>)
    ELSE IF rd.data.items.k = "null" THEN Raise("TypeError")
    ELSE ReelsLoop(rd.data.items.list)

(***************************************************************************)
(* TikTok: process_user_videos (tiktok_api.py 224-265) and                 *)
(* process_search_videos (267-310).                                        *)
(* response_data is [error, videos, data, itemList, author_name, username]:*)
(* videos and itemList are [k, list] (k "absent", "null", "list"), data is *)
(* [k, videos, list] with k "absent", "null", "int", "dict" (holding       *)
(* videos) or "list" (the list), author_name and username a string or      *)
(* NoKey.  The functions write into the items of the list they walk, so    *)
(* their outcome carries the list as it is left: [raised, exc, rec, items].*)
(***************************************************************************)
StrAuthor(name) == [k |-> "str", s |-> name, uniqueId |-> NoKey, username |-> NoKey]

\* a faulty variant of the back-fill: author_name is not copied
UserBackFillUsernameOnly(rd, vid) ==
    IF rd.username # NoKey THEN [vid EXCEPT !.username = rd.username] ELSE vid

\* lines 244-250: what process_user_videos writes into one item
UserBackFill(rd, vid) ==
    LET a == IF vid.author.k = "absent" /\ rd.author_name # NoKey
             THEN [vid EXCEPT !.author = StrAuthor(rd.author_name)]
             ELSE vid
    IN IF rd.username # NoKey THEN [a EXCEPT !.username = rd.username] ELSE a

\* lines 287-290: what process_search_videos writes into one item
SearchBackFill(rd, vid) ==
    IF vid.author.k = "dict" /\ vid.author.uniqueId # NoKey
    THEN [vid EXCEPT !.username = vid.author.uniqueId]
    ELSE vid

\* a for loop over videos: each item is written into, then extracted; the
\* first extraction that raises ends the call, the later items untouched
VideosOutcome(videos, filled, out) ==
    [raised |-> out.raised, exc |-> out.exc, rec |-> out.rec,
     items |-> [i \in 1..Len(videos) |->
                   IF out.raised /\ i > out.at THEN videos[i] ELSE filled[i]]]

LoopOutcomeAt(outs) ==
    IF Raising(outs) # {}
    THEN [raised |-> TRUE, exc |-> outs[FirstOf(Raising(outs))].exc,
          rec |-> NoRecord, at |-> FirstOf(Raising(outs))]
    ELSE [raised |-> FALSE, exc |-> "",
          rec |-> [i \in 1..Len(outs) |-> outs[i].rec], at |-> 0]

\* a faulty variant of the loop: each item is extracted before it is written
\* into
VideosLoopExtractingFirst(videos, filled) ==
    VideosOutcome(videos, filled,
        LoopOutcomeAt([i \in 1..Len(videos) |-> extract_video_data(videos[i])]))

VideosLoop(videos, filled) ==
    VideosOutcome(videos, filled,
        LoopOutcomeAt([i \in 1..Len(filled) |-> extract_video_data(filled[i])]))

\* the outcome of a call that walks no list
Plain(out) == [raised |-> out.raised, exc |-> out.exc, rec |-> out.rec,
               items |-> <<>>]

\* which list the call walks, by the if/elif chain: "videos", "data.videos",
\* "data", "itemList", "none", or "raise" when a test itself raises.
\* A faulty variant of the chain: the "error" test of line 237 is missing
UserBranchWithoutErrorTest(rd) ==
    IF rd.videos.k = "list" THEN "videos"
    ELSE IF rd.data.k = "list" THEN "data"
    ELSE IF rd.itemList.k = "list" THEN "itemList"
    ELSE "none"

\* a faulty variant of the chain: itemList is tested before data
SearchBranchItemListFirst(rd) ==
    IF rd.error THEN "none"
    ELSE IF rd.videos.k = "list" THEN "videos"
    ELSE IF rd.itemList.k = "list" THEN "itemList"
    ELSE IF rd.data.k \in {"null", "int"} THEN "raise"
    ELSE IF rd.data.k = "dict" /\ rd.data.videos.k = "list" THEN "data.videos"
    ELSE IF rd.data.k = "list" THEN "data"
    ELSE "none"

UserBranch(rd) ==
    IF rd.error THEN "none"
    ELSE IF rd.videos.k = "list" THEN "videos"
    ELSE IF rd.data.k = "list" THEN "data"
    ELSE IF rd.itemList.k = "list" THEN "itemList"
    ELSE "none"

SearchBranch(rd) ==
    IF rd.error THEN "none"
    ELSE IF rd.videos.k = "list" THEN "videos"
    ELSE IF rd.data.k \in {"null", "int"} THEN "raise"
    ELSE IF rd.data.k = "dict" /\ rd.data.videos.k = "list" THEN "data.videos"
    ELSE IF rd.data.k = "list" THEN "data"
    ELSE IF rd.itemList.k = "list" THEN "itemList"
    ELSE "none"

\* the list found at a branch
Walked(rd, branch) ==
    CASE branch = "videos" -> rd.videos.list
      [] branch = "data.videos" -> rd.data.videos.list
      [] branch = "data" -> rd.data.list
      [] branch = "itemList" -> rd.itemList.list
      [] OTHER -> <<>>

\* only the loop over response_data["videos"] writes into its items
UserFilled(rd, branch, videos) ==
    [i \in 1..Len(videos) |->
        IF branch = "videos" THEN UserBackFill(rd, videos[i]) ELSE videos[i]]

SearchFilled(rd, branch, videos) ==
    [i \in 1..Len(videos) |->
        IF branch = "videos" THEN SearchBackFill(rd, videos[i]) ELSE videos[i]]

UserWalk(rd, branch, videos) ==
    IF branch = "none" THEN Plain(Return(<<>>))
    ELSE VideosLoop(videos, UserFilled(rd, branch, videos))

SearchWalk(rd, branch, videos) ==
    IF branch = "none" THEN Plain(Return(<<>>))
    ELSE IF branch = "raise" THEN Plain(Raise("TypeError"))
    ELSE VideosLoop(videos, SearchFilled(rd, branch, videos))

process_user_videos(rd) ==
    UserWalk(rd, UserBranch(rd), Walked(rd, UserBranch(rd)))

process_search_videos(rd) ==
    SearchWalk(rd, SearchBranch(rd), Walked(rd, SearchBranch(rd)))

\* response_data after the call: the walked list holds the items as left
AfterCall(rd, branch, items) ==
    CASE branch = "videos" -> [rd EXCEPT !.videos.list = items]
      [] branch = "data.videos" -> [rd EXCEPT !.data.videos.list = items]
      [] branch = "data" -> [rd EXCEPT !.data.list = items]
      [] branch = "itemList" -> [rd EXCEPT !.itemList.list = items]
      [] OTHER -> rd

(***************************************************************************)
(* main (main.py 38-115) in non-interactive mode, search_platform           *)
(* (platform_handler.py 95-227) and process_platform_accounts (229-419).   *)
(* A call is [function, platform, accounts, positional]: positional holds  *)
(* the arguments passed by position after query or accounts; an argument   *)
(* is [k, n, s], the int n or the str s.                                   *)
(***************************************************************************)
IntArg(n) == [k |-> "int", n |-> n, s |-> ""]

StrArg(str) == [k |-> "str", n |-> 0, s |-> str]

Call(function, platform, accounts, positional) ==
    [function |-> function, platform |-> platform, accounts |-> accounts,
     positional |-> positional]

\* the value of the i-th parameter after query or accounts: the argument
\* passed at that position, or the default of the signature
Parameter(positional, i, default) ==
    IF Len(positional) >= i THEN positional[i] ELSE default

\* def ...(platform, ..., time_frame: int = 4, output_dir: str = "Output JSON")
time_frame(c) == Parameter(c.positional, 1, IntArg(4))

output_dir(c) == Parameter(c.positional, 2, StrArg("Output JSON"))

\* main.py 69-87: the searches of a --query run
SearchCalls(a) ==
    LET youtube == Call("search_platform", "youtube", <<>>,
                        <<IntArg(a.timeframe), StrArg(a.output)>>)
        instagram == Call("search_platform", "instagram", <<>>,
                          <<StrArg(a.output)>>)
        tiktok == Call("search_platform", "tiktok", <<>>, <<StrArg(a.output)>>)
    IN CASE a.platform = "youtube" -> <<youtube>>
         [] a.platform = "instagram" -> <<instagram>>
         [] a.platform = "tiktok" -> <<tiktok>>
         [] a.platform = "all" -> <<youtube, instagram, tiktok>>

\* main.py 89-111: the platforms whose accounts are processed
AccountCalls(a, cfg) ==
    (IF a.platform \in {"youtube", "all"} /\ cfg.youtube_accounts # <<>>
     THEN <<Call("process_platform_accounts", "youtube", cfg.youtube_accounts,
                 <<IntArg(a.timeframe), StrArg(a.output)>>)>>
     ELSE <<>>)
    \o (IF a.platform \in {"instagram", "all"} /\ cfg.instagram_accounts # <<>>
        THEN <<Call("process_platform_accounts", "instagram",
                    cfg.instagram_accounts, <<StrArg(a.output)>>)>>
        ELSE <<>>)
    \o (IF a.platform \in {"tiktok", "all"} /\ cfg.tiktok_accounts # <<>>
        THEN <<Call("process_platform_accounts", "tiktok", cfg.tiktok_accounts,
                    <<StrArg(a.output)>>)>>
        ELSE <<>>)

MainCalls(a, cfg) ==
    IF a.query # NoKey THEN SearchCalls(a) ELSE AccountCalls(a, cfg)

\* save_data_to_json(data, filename, output_dir), platform_handler.py 59-81:
\* the file written
JsonFile(platform, what, directory) ==
    [platform |-> platform, what |-> what, directory |-> directory.s]

\* platform_handler.py 95-227: `if not results: return`, else the results
\* are saved in output_dir
search_platform(c, found) ==
    IF found THEN {JsonFile(c.platform, "search", output_dir(c))} ELSE {}

\* platform_handler.py 229-419: for YouTube the channel info of every
\* account found is saved, then its videos; for the others the reels or
\* videos of every account that has some
process_platform_accounts(c, found) ==
    IF found = {} THEN {}
    ELSE IF c.platform = "youtube"
    THEN {JsonFile(c.platform, "channel", output_dir(c)),
          JsonFile(c.platform, "videos", output_dir(c))}
    ELSE {JsonFile(c.platform, "videos", output_dir(c))}

(***************************************************************************)
(* config_handler.py: config.json holds a dict, a list of usernames for    *)
(* each key that is present; a username is its sequence of characters.     *)
(* The file is readable and writable, and well-formed JSON.                *)
(***************************************************************************)
Whitespace == {" ", "\t", "\n"}

\* faulty variant: the username is kept as it was passed
Unstripped(str) == str

RECURSIVE lstrip(_)
lstrip(str) ==
    IF str # <<>> /\ Head(str) \in Whitespace THEN lstrip(Tail(str)) ELSE str

RECURSIVE rstrip(_)
rstrip(str) ==
    IF str # <<>> /\ str[Len(str)] \in Whitespace
    THEN rstrip(SubSeq(str, 1, Len(str) - 1))
    ELSE str

\* str.strip()
strip(str) == rstrip(lstrip(str))

\* platform_key = f"{platform}_accounts"
platform_key(platform) == platform \o "_accounts"

\* config.get(platform_key, [])
current_usernames(cfg, platform) ==
    IF platform_key(platform) \in DOMAIN cfg THEN cfg[platform_key(platform)]
    ELSE <<>>

\* config[platform_key] = usernames
WithUsernames(cfg, platform, usernames) ==
    [key \in DOMAIN cfg \union {platform_key(platform)} |->
        IF key = platform_key(platform) THEN usernames ELSE cfg[key]]

\* username in usernames
In(username, usernames) ==
    \E i \in 1..Len(usernames) : usernames[i] = username

\* faulty variant: a username that the list already holds is added again
AddUsernameUntested(current, username) ==
    IF username # <<>> THEN Append(current, username) ELSE current

\* config_handler.py 99-102: one turn of the loop, on the stripped username
AddUsername(current, username) ==
    IF username # <<>> /\ ~In(username, current)
    THEN Append(current, username)
    ELSE current

\* config_handler.py 98-102
RECURSIVE AddUsernames(_, _)
AddUsernames(current, new_usernames) ==
    IF new_usernames = <<>> THEN current
    ELSE AddUsernames(AddUsername(current, strip(Head(new_usernames))),
                      Tail(new_usernames))

\* what a call of config_handler gives: the dict in config.json after it,
\* the value returned and whether the file was written
Given(cfg, returned, written) ==
    [config |-> cfg, returned |-> returned, written |-> written]

update_config_usernames(cfg, platform, new_usernames) ==
    Given(WithUsernames(cfg, platform,
                        AddUsernames(current_usernames(cfg, platform),
                                     new_usernames)),
          "True", TRUE)

\* list.remove(username): the first occurrence goes
ListRemove(usernames, username) ==
    LET i == CHOOSE j \in 1..Len(usernames) :
                 /\ usernames[j] = username
                 /\ \A k \in 1..(j - 1) : usernames[k] # username
    IN SubSeq(usernames, 1, i - 1) \o SubSeq(usernames, i + 1, Len(usernames))

\* config_handler.py 163-166
RECURSIVE RemoveUsernames(_, _)
RemoveUsernames(current, usernames_to_remove) ==
    IF usernames_to_remove = <<>> THEN current
    ELSE RemoveUsernames(IF In(Head(usernames_to_remove), current)
                         THEN ListRemove(current, Head(usernames_to_remove))
                         ELSE current,
                         Tail(usernames_to_remove))

remove_config_usernames(cfg, platform, usernames_to_remove) ==
    IF current_usernames(cfg, platform) = <<>>
    THEN Given(cfg, "False", FALSE)
    ELSE Given(WithUsernames(cfg, platform,
                             RemoveUsernames(current_usernames(cfg, platform),
                                             usernames_to_remove)),
               "True", TRUE)

(***************************************************************************)
(* get_time_frame_info (platform_handler.py 22-57) and the time frame of   *)
(* get_channel_videos (youtube_api.py 182-196). A datetime is [d, s, us]:  *)
(* the day since 1970-01-01, the second of the day and the microsecond,    *)
(* in UTC; published_after is [k |-> "none"] or a datetime with k =        *)
(* "datetime".                                                             *)
(***************************************************************************)
None == [k |-> "none", d |-> 0, s |-> 0, us |-> 0]

DateTime(d, s, us) == [k |-> "datetime", d |-> d, s |-> s, us |-> us]

\* now - datetime.timedelta(days=days)
MinusDays(clock, days) == DateTime(clock.d - days, clock.s, clock.us)

\* platform_handler.py 34-57: published_after of the dict returned
get_time_frame_info(code, clock) ==
    CASE code = 1 -> MinusDays(clock, 1)
      [] code = 2 -> MinusDays(clock, 7)
      [] code = 3 -> MinusDays(clock, 30)
      [] OTHER -> None

IsLeap(y) == y % 4 = 0 /\ (y % 100 # 0 \/ y % 400 = 0)

DaysInMonth(y, m) ==
    IF m = 2 THEN (IF IsLeap(y) THEN 29 ELSE 28)
    ELSE IF m \in {4, 6, 9, 11} THEN 30 ELSE 31

\* the text has the shape of '%Y-%m-%dT%H:%M:%SZ', every field written
\* with all its digits
HasFormat(chars) ==
    /\ Len(chars) = 20
    /\ chars[5] = "-" /\ chars[8] = "-" /\ chars[11] = "T"
    /\ chars[14] = ":" /\ chars[17] = ":" /\ chars[20] = "Z"
    /\ \A i \in (1..19) \ {5, 8, 11, 14, 17} : IsDigitChar(chars[i])

Field(chars, from, to) == ParseDigits(SubSeq(chars, from, to))

\* the fields name a date and a time of day
IsDateTime(y, m, d, hour, minute, second) ==
    /\ y >= 1
    /\ m \in 1..12
    /\ d \in 1..DaysInMonth(y, m)
    /\ hour \in 0..23 /\ minute \in 0..59 /\ second \in 0..59

\* datetime.datetime.strptime(text, '%Y-%m-%dT%H:%M:%SZ'), lines 186-192
strptime(chars) ==
    IF ~HasFormat(chars) THEN Raise("ValueError")
    ELSE IF ~IsDateTime(Field(chars, 1, 4), Field(chars, 6, 7),
                        Field(chars, 9, 10), Field(chars, 12, 13),
                        Field(chars, 15, 16), Field(chars, 18, 19))
    THEN Raise("ValueError")
    ELSE Return(DateTime(DaysFromCivil(Field(chars, 1, 4), Field(chars, 6, 7),
                                       Field(chars, 9, 10)),
                         Field(chars, 12, 13) * 3600
                             + Field(chars, 15, 16) * 60 + Field(chars, 18, 19),
                         0))

\* a text of the form of publishedAt, and one with a fraction of a second
IsoZ(y, m, d, hour, minute, second) ==
    Digits(y, 4) \o <<"-">> \o Digits(m, 2) \o <<"-">> \o Digits(d, 2)
    \o <<"T">> \o Digits(hour, 2) \o <<":">> \o Digits(minute, 2)
    \o <<":">> \o Digits(second, 2) \o <<"Z">>

IsoMillisZ(y, m, d, hour, minute, second) ==
    SubSeq(IsoZ(y, m, d, hour, minute, second), 1, 19)
    \o <<".", "0", "0", "0", "Z">>

\* the publication times of the items drawn
PublishedTexts ==
    {IsoZ(2023, 12, 3, 9, 59, 59), IsoZ(2023, 12, 3, 10, 0, 0),
     IsoZ(2023, 12, 26, 10, 0, 0), IsoZ(2024, 1, 1, 9, 59, 59),
     IsoZ(2024, 1, 1, 10, 0, 0), IsoZ(2024, 1, 2, 9, 0, 0),
     IsoMillisZ(2024, 1, 1, 12, 0, 0)}

\* the characters of a str
Characters(str) == CHOOSE chars \in PublishedTexts : Join(chars) = str

\* faulty variant: the dates are compared, not the times of day
EarlierDay(a, b) == a.d < b.d

\* a < b of two datetimes
Earlier(a, b) ==
    \/ a.d < b.d
    \/ a.d = b.d /\ a.s < b.s
    \/ a.d = b.d /\ a.s = b.s /\ a.us < b.us

\* youtube_api.py 184-196: whether the item is passed over, or what is
\* raised
PassedOver(vd, after) ==
    IF after.k = "none" THEN Return(FALSE)
    ELSE IF SnippetField(vd, "publishedAt").raised
    THEN Raise(SnippetField(vd, "publishedAt").exc)
    ELSE IF strptime(Characters(vd.snippet.publishedAt)).raised
    THEN Raise("ValueError")
    ELSE Return(Earlier(strptime(Characters(vd.snippet.publishedAt)).rec,
                        after))

\* youtube_api.py 181-215: the videos returned, or the first exception
RECURSIVE ChannelVideos(_, _, _)
ChannelVideos(todo_items, after, videos) ==
    IF todo_items = <<>> THEN Return(videos)
    ELSE IF PassedOver(Head(todo_items), after).raised
    THEN Raise(PassedOver(Head(todo_items), after).exc)
    ELSE IF PassedOver(Head(todo_items), after).rec
    THEN ChannelVideos(Tail(todo_items), after, videos)
    ELSE IF youtube_video_record(Head(todo_items), Return(ChannelTitle)).raised
    THEN Raise(youtube_video_record(Head(todo_items),
                                    Return(ChannelTitle)).exc)
    ELSE ChannelVideos(Tail(todo_items), after,
                       Append(videos,
                              youtube_video_record(Head(todo_items),
                                                   Return(ChannelTitle)).rec))

get_channel_videos(todo_items, after) == ChannelVideos(todo_items, after, <<>>)

(***************************************************************************)
(* process_platform_accounts (platform_handler.py 232-419), account by     *)
(* account, for Instagram (336-367) and TikTok (377-412). An event is a    *)
(* fetch for an account, a delay before the fetch for an account, or a     *)
(* JSON or CSV file written for an account.                                *)
(***************************************************************************)
Event(kind, account, seconds) ==
    [kind |-> kind, account |-> account, seconds |-> seconds]

\* platform_handler.py 351-357 and 396-402: with reels or videos, the two
\* files of the account are written
Files(account, out) ==
    IF out.raised \/ out.rec = <<>> THEN <<>>
    ELSE <<Event("json", account, 0), Event("csv", account, 0)>>

\* platform_handler.py 336-367: one turn of the Instagram loop
InstagramTurn(account, out) ==
    <<Event("fetch", account, 0)>> \o Files(account, out)

\* faulty variant: the delay ends the turn, where `continue` skips it
TikTokTurnDelayedLast(account, out) ==
    <<Event("fetch", account, 0)>> \o Files(account, out)
    \o (IF Files(account, out) # <<>>
        THEN <<Event("sleep", account + 1, 2)>>
        ELSE <<>>)

\* platform_handler.py 377-412: one turn of the TikTok loop, time.sleep(2)
\* first for every account but the first
TikTokTurn(account, out) ==
    (IF account > 1 THEN <<Event("sleep", account, 2)>> ELSE <<>>)
    \o <<Event("fetch", account, 0)>> \o Files(account, out)

\* the number of accounts fetched
Fetched(happened) ==
    Cardinality({k \in 1..Len(happened) : happened[k].kind = "fetch"})

(***************************************************************************)
(* menu_handler.py: interactive_menu and the handlers of Manage usernames. *)
(* The menu is at a prompt or in an operation: "main" (line 48), "search", *)
(* "competitor" and "spy" (51-57), "manage" (206), "action" (235), "add"   *)
(* (258), "remove" (316) and "confirm" (345), then "exited".               *)
(***************************************************************************)
At(at, platform, usernames) ==
    [at |-> at, platform |-> platform, usernames |-> usernames]

\* menu_handler.py 50-66: where a choice of the main menu leads
MainChoice(choice) ==
    CASE choice = 1 -> "search"
      [] choice = 2 -> "competitor"
      [] choice = 3 -> "spy"
      [] choice = 4 -> "manage"
      [] choice = 5 -> "exited"

\* menu_handler.py 212-218
platform_map == [choice \in 1..3 |->
                    <<"youtube", "instagram", "tiktok">>[choice]]

\* menu_handler.py 221-248: with usernames the menu asks what to do with
\* them, with none it asks for usernames to add
PlatformChoice(cfg, platform) ==
    IF current_usernames(cfg, platform) # <<>>
    THEN At("action", platform, current_usernames(cfg, platform))
    ELSE At("add", platform, <<>>)

\* menu_handler.py 269: the typed usernames, stripped, the empty ones out
RECURSIVE Entered(_)
Entered(typed) ==
    IF typed = <<>> THEN <<>>
    ELSE (IF strip(Head(typed)) # <<>> THEN <<strip(Head(typed))>> ELSE <<>>)
         \o Entered(Tail(typed))

\* menu_handler.py 328-335: the usernames at the valid numbers typed
RECURSIVE Selected(_, _)
Selected(usernames, numbers) ==
    IF numbers = <<>> THEN <<>>
    ELSE (IF Head(numbers) \in 1..Len(usernames)
          THEN <<usernames[Head(numbers)]>>
          ELSE <<>>) \o Selected(usernames, Tail(numbers))

\* where KeyboardInterrupt is caught: in handle_remove_usernames (364-367),
\* which returns to the platform selection, else in interactive_menu
\* (70-74), which goes on to the main menu
Interrupted(at) == IF at \in {"remove", "confirm"} THEN "manage" ELSE "main"

(***************************************************************************)
(* The arguments drawn for the calls.                                      *)
(***************************************************************************)
\* --platform, --output, --query and --timeframe of a non-interactive run
CommandLines ==
    [platform : {"youtube", "instagram", "tiktok", "all"},
     output : {"Output JSON", "out"},
     query : {NoKey, "cats"},
     timeframe : 1..4]

Configs ==
    [youtube_accounts : {<<>>, <<"yt">>},
     instagram_accounts : {<<>>, <<"ig">>},
     tiktok_accounts : {<<>>, <<"tt1", "tt2">>}]

Platforms == {"youtube", "instagram", "tiktok"}

\* the usernames a caller passes: bare, padded, blank and empty ones
Usernames ==
    {<<"a">>, <<"b">>, <<"c">>, <<" ", "a">>, <<"c", " ">>, <<"a", " ", "b">>,
     <<" ">>, <<"\t">>, <<>>}

UsernameLists ==
    {<<>>} \union {<<u>> : u \in Usernames}
    \union {<<<<"c">>, <<"c", " ">>>>, <<<<"a">>, <<"c">>>>,
            <<<<"b">>, <<"a">>>>, <<<<" ">>, <<"c">>>>,
            <<<<"a">>, <<"a">>>>}

\* config.json as its author wrote it: a key may be missing, a list may
\* be empty or name an account twice
ConfigFiles ==
    {[key \in keys |->
         CASE key = "youtube_accounts" -> <<<<"c">>>>
           [] key = "instagram_accounts" -> <<>>
           [] key = "tiktok_accounts" -> list] :
     keys \in {{"youtube_accounts", "instagram_accounts", "tiktok_accounts"},
               {"instagram_accounts", "tiktok_accounts"}},
     list \in {<<<<"a">>>>, <<<<"a">>, <<"b">>>>,
               <<<<"a">>, <<"b">>, <<"a">>>>}}

\* what the user types at the prompt of handle_add_usernames, split at
\* the commas
TypedUsernames ==
    {<<<<>>>>, <<<<" ">>, <<>>>>, <<<<"c">>>>, <<<<"b">>, <<" ", "a">>>>}

\* the numbers the user types at the prompt of handle_remove_usernames
TypedNumbers == {<<>>, <<1>>, <<2, 1>>, <<9>>}

S42 == StrV(<<"4", "2">>)
S7 == StrV(<<"7">>)
Sabc == StrV(<<"a", "b", "c">>)
S15k == StrV(<<"1", ".", "5", "k">>)

NoUser == [k |-> "absent", username |-> NoKey]

EmptyReel ==
    [user |-> NoUser, caption |-> [k |-> "absent", text |-> NoKey],
     play_count |-> Absent, ig_play_count |-> Absent,
     like_count |-> Absent, reshare_count |-> Absent, share_count |-> Absent,
     comment_count |-> Absent, code |-> NoKey, taken_at_date |-> NoKey]

CountReels ==
    {[EmptyReel EXCEPT !.play_count = pc, !.ig_play_count = ipc,
                       !.like_count = lc, !.reshare_count = rc,
                       !.share_count = sc, !.comment_count = cc] :
        pc \in {Absent, Null, IntV(0), IntV(3), IntV(MaxCount), S42, Sabc},
        ipc \in {Absent, Null, IntV(5)},
        lc \in {Absent, Null, IntV(3), IntV(23), S7, S15k},
        rc \in {Absent, Null, IntV(1)},
        sc \in {Absent, IntV(2)},
        cc \in {Absent, IntV(0), S42}}

UserReels ==
    {[EmptyReel EXCEPT !.user = u, !.play_count = pc] :
        u \in {[k |-> "dict", username |-> "ig"], [k |-> "dict", username |-> NoKey],
               [k |-> "null", username |-> NoKey]},
        pc \in {Absent, IntV(3)}}

\* reels that differ in caption, code and date
TextReels ==
    {[EmptyReel EXCEPT !.caption = c, !.code = cd, !.taken_at_date = d,
                       !.play_count = IntV(3)] :
        c \in {[k |-> "absent", text |-> NoKey], [k |-> "null", text |-> NoKey],
               [k |-> "dict", text |-> NoKey], [k |-> "dict", text |-> "hi"]},
        cd \in {NoKey, "Cx1"},
        d \in {NoKey, "2024-01-01T10:00:00"}}

Reels == CountReels \union UserReels \union TextReels

NoAuthor == [k |-> "absent", s |-> "", uniqueId |-> NoKey, username |-> NoKey]

NoStatistics ==
    [k |-> "absent", number_of_hearts |-> Absent, number_of_comments |-> Absent,
     number_of_reposts |-> Absent, number_of_plays |-> Absent]

NoStats ==
    [k |-> "absent", diggCount |-> Absent, likes |-> Absent,
     commentCount |-> Absent, comments |-> Absent, shareCount |-> Absent,
     shares |-> Absent, playCount |-> Absent, views |-> Absent]

EmptyVideo ==
    [author |-> NoAuthor, authorMeta |-> [k |-> "absent", name |-> NoKey],
     username |-> NoKey, statistics |-> NoStatistics, stats |-> NoStats,
     diggCount |-> Absent, likes |-> Absent, commentCount |-> Absent,
     comments |-> Absent, shareCount |-> Absent, shares |-> Absent,
     playCount |-> Absent, views |-> Absent,
     description |-> NoKey, desc |-> NoKey, text |-> NoKey,
     download_url |-> NoKey, video |-> [k |-> "absent", playAddr |-> NoKey],
     webVideoUrl |-> NoKey, shareUrl |-> NoKey,
     video_id |-> Absent, id |-> Absent,
     create_time |-> Absent, createTime |-> Absent, createTimeISO |-> Absent]

\* the candidate fields of each count, in the order of the if/elif chain: a
\* path is <<container, key>>, the container "top" being the video itself
LikesPaths ==
    << <<"statistics", "number_of_hearts">>, <<"stats", "diggCount">>,
       <<"stats", "likes">>, <<"top", "diggCount">>, <<"top", "likes">> >>

CommentsPaths ==
    << <<"statistics", "number_of_comments">>, <<"stats", "commentCount">>,
       <<"stats", "comments">>, <<"top", "commentCount">>, <<"top", "comments">> >>

SharesPaths ==
    << <<"statistics", "number_of_reposts">>, <<"stats", "shareCount">>,
       <<"stats", "shares">>, <<"top", "shareCount">>, <<"top", "shares">> >>

ViewsPaths ==
    << <<"statistics", "number_of_plays">>, <<"stats", "playCount">>,
       <<"stats", "views">>, <<"top", "playCount">>, <<"top", "views">> >>

\* the video with the field at path set (a container becomes a dict)
SetPath(vid, path, val) ==
    CASE path[1] = "statistics" ->
            [vid EXCEPT !.statistics.k = "dict", !.statistics[path[2]] = val]
      [] path[1] = "stats" ->
            [vid EXCEPT !.stats.k = "dict", !.stats[path[2]] = val]
      [] OTHER -> [vid EXCEPT ![path[2]] = val]

\* the value at a path (Absent when the container or the key is missing)
GetPath(vid, path) ==
    CASE path[1] = "statistics" ->
            IF vid.statistics.k = "dict" THEN vid.statistics[path[2]] ELSE Absent
      [] path[1] = "stats" ->
            IF vid.stats.k = "dict" THEN vid.stats[path[2]] ELSE Absent
      [] OTHER -> vid[path[2]]

\* an assignment of values to the five candidate fields of one count
NoneSet == [i \in 1..5 |-> Absent]

RECURSIVE SetAll(_, _, _, _)
SetAll(vid, paths, vals, i) ==
    IF i = 0 THEN vid
    ELSE LET rest == SetAll(vid, paths, vals, i - 1)
         IN IF Has(vals[i]) THEN SetPath(rest, paths[i], vals[i]) ELSE rest

\* likes: no field, one field, or two synonymous fields (the second holding
\* its own index from 6, or null)
LikesFirst(i) == {IntV(i), IntV(23), Null, S42, Sabc}

LikesChoices ==
    {NoneSet}
    \union UNION {{[NoneSet EXCEPT ![i] = v] : v \in LikesFirst(i)} : i \in 1..5}
    \union UNION {{[NoneSet EXCEPT ![ij[1]] = v, ![ij[2]] = w] :
                       v \in LikesFirst(ij[1]), w \in {IntV(7), Null}} :
                    ij \in {x \in (1..5) \X (1..5) : x[1] < x[2]}}

CommentsChoices == {NoneSet} \union {[NoneSet EXCEPT ![i] = IntV(i)] : i \in 1..5}

SharesChoices == {NoneSet} \union {[NoneSet EXCEPT ![i] = IntV(1)] : i \in {1, 3, 5}}

ViewsChoices ==
    {NoneSet, [NoneSet EXCEPT ![1] = IntV(3)], [NoneSet EXCEPT ![2] = IntV(0)],
     [NoneSet EXCEPT ![3] = S42], [NoneSet EXCEPT ![4] = Null],
     [NoneSet EXCEPT ![5] = IntV(MaxCount)]}

CountVideos ==
    {SetAll(SetAll(SetAll(SetAll(EmptyVideo, LikesPaths, l, 5),
                          CommentsPaths, c, 5), SharesPaths, s, 5),
            ViewsPaths, v, 5) :
        l \in LikesChoices, c \in CommentsChoices, s \in SharesChoices,
        v \in ViewsChoices}

\* videos that differ in who the author is, and videos whose statistics or
\* stats is null
AuthorVideos ==
    {[EmptyVideo EXCEPT !.author = a, !.authorMeta = m, !.username = u] :
        a \in {NoAuthor, StrAuthor("al"),
               [k |-> "dict", s |-> "", uniqueId |-> "uid", username |-> NoKey],
               [k |-> "dict", s |-> "", uniqueId |-> NoKey, username |-> "au"],
               [k |-> "null", s |-> "", uniqueId |-> NoKey, username |-> NoKey]},
        m \in {[k |-> "absent", name |-> NoKey], [k |-> "dict", name |-> "meta"],
               [k |-> "null", name |-> NoKey]},
        u \in {NoKey, "z"}}

NullContainerVideos ==
    {[EmptyVideo EXCEPT !.statistics.k = "null", !.views = IntV(3)],
     [EmptyVideo EXCEPT !.stats.k = "null", !.likes = IntV(3)]}

\* time fields: epoch seconds as int or str, a leap day, a time before
\* 1970, null, strings that are no number, and ints beyond the range of
\* datetime (10^12 is a millisecond epoch) and of the platform
Timestamps ==
    {IntV(0), IntV(-1), IntV(86399), IntV(951782400), IntV(1700000000),
     StrV(<<"1", "7", "0", "0", "0", "0", "0", "0", "0", "0">>),
     Null, Sabc, StrV(<<>>), BigV(12), BigV(MaxExponent - 2), BigV(MaxExponent)}

IsoStrings == {StrV(<<"2", "0", "2", "4", "-", "0", "1", "-", "0", "1">>), Null}

DateVideos ==
    {[EmptyVideo EXCEPT !.create_time = t] : t \in Timestamps}
    \union {[EmptyVideo EXCEPT !.createTime = t] : t \in Timestamps}
    \union {[EmptyVideo EXCEPT !.createTimeISO = t] : t \in IsoStrings}
    \union {[EmptyVideo EXCEPT !.create_time = t, !.createTime = IntV(86399),
                               !.createTimeISO = i] :
                t \in {Null, IntV(0)}, i \in IsoStrings \union {Absent}}

\* the local time zones drawn: New York (EST), UTC, India
Offsets == {-18000, 0, 19800}

\* videos that differ in the URL fields, the identifiers and the author
UrlVideos ==
    {[EmptyVideo EXCEPT !.author = a, !.download_url = du, !.video = vp,
                        !.webVideoUrl = wu, !.shareUrl = su,
                        !.video_id = vi, !.id = i] :
        a \in {NoAuthor, StrAuthor("al")},
        du \in {NoKey, "https://d"},
        vp \in {[k |-> "absent", playAddr |-> NoKey],
                [k |-> "dict", playAddr |-> NoKey],
                [k |-> "dict", playAddr |-> "https://p"],
                [k |-> "null", playAddr |-> NoKey]},
        wu \in {NoKey, "https://w"},
        su \in {NoKey, "https://s"},
        vi \in {Absent, IntV(7), StrV(<<"7", "1">>)},
        i \in {Absent, IntV(9), Null}}

CaptionVideos ==
    {[EmptyVideo EXCEPT !.description = d, !.desc = e, !.text = t] :
        d \in {NoKey, "d"}, e \in {NoKey, "e"}, t \in {NoKey, "t"}}

Videos ==
    CountVideos \union AuthorVideos \union NullContainerVideos
        \union DateVideos \union UrlVideos \union CaptionVideos

\* YouTube statistics: the API sends digit strings
FullSnippet ==
    [k |-> "dict", title |-> "t", publishedAt |-> "2024-01-01T10:00:00Z",
     channelTitle |-> "own"]

CountItems ==
    {[id |-> "v1", snippet |-> FullSnippet,
      statistics |-> [viewCount |-> vc, likeCount |-> lc, commentCount |-> cc]] :
        vc \in {Absent, StrV(<<"1", "0", "0", "0">>), StrV(<<"0">>), Sabc, Null,
                IntV(5), StrV(Digits(MaxCount, 3))},
        lc \in {Absent, StrV(<<"5", "0">>), S15k, StrV(<<>>), Null,
                StrV(<<"2", "3">>), StrV(<<"1", "3">>)},
        cc \in {Absent, StrV(<<"1", "0">>), Sabc, IntV(0)}}

\* items that differ in id and snippet
TextItems ==
    {[id |-> i, snippet |-> sn,
      statistics |-> [viewCount |-> StrV(<<"7">>), likeCount |-> Absent,
                      commentCount |-> Absent]] :
        i \in {NoKey, "v1", "v2"},
        sn \in {[k |-> "absent", title |-> NoKey, publishedAt |-> NoKey,
                 channelTitle |-> NoKey]}
               \union {[k |-> "dict", title |-> t, publishedAt |-> pa,
                        channelTitle |-> ct] :
                          t \in {NoKey, "t"},
                          pa \in {NoKey, "2024-01-01T10:00:00Z"},
                          ct \in {NoKey, "own"}}}

YouTubeItems == CountItems \union TextItems

\* sequences of at most MaxItems elements of S
Lists(S) == UNION {[1..n -> S] : n \in 0..MaxItems}

\* the items drawn for an Instagram envelope: two well-formed reels, one
\* with a null count, one whose like_count does not parse
EnvReels ==
    {[EmptyReel EXCEPT !.play_count = IntV(MaxCount), !.like_count = IntV(23)],
     [EmptyReel EXCEPT !.play_count = S42, !.comment_count = IntV(0)],
     [EmptyReel EXCEPT !.play_count = Null, !.like_count = IntV(3)],
     [EmptyReel EXCEPT !.like_count = S15k]}

NoItems == [k |-> "absent", list |-> <<>>]

NullItems == [k |-> "null", list |-> <<>>]

ListOf(items) == [k |-> "list", list |-> items]

ReelEnvelopes ==
    {[error |-> e, data |-> d] :
        e \in BOOLEAN,
        d \in {[k |-> kind, items |-> NoItems] :
                  kind \in {"absent", "null", "int", "str", "dict"}}
              \union {[k |-> "dict", items |-> NullItems]}
              \union {[k |-> "dict", items |-> ListOf(l)] : l \in Lists(EnvReels)}}

\* the items drawn for a TikTok envelope: without author, with an author
\* dict, with a null view count, with a username and authorMeta
PlainVideo == [EmptyVideo EXCEPT !.likes = IntV(3), !.views = IntV(MaxCount)]

OwnAuthorVideo ==
    [EmptyVideo EXCEPT
        !.author = [k |-> "dict", s |-> "", uniqueId |-> "uid", username |-> NoKey],
        !.likes = IntV(1)]

NullViewsVideo == [EmptyVideo EXCEPT !.views = Null]

MetaVideo ==
    [EmptyVideo EXCEPT !.authorMeta = [k |-> "dict", name |-> "meta"],
                       !.username = "z"]

UsernameVideo == [EmptyVideo EXCEPT !.username = "z", !.views = IntV(3)]

EnvVideos ==
    {PlainVideo, OwnAuthorVideo, NullViewsVideo, MetaVideo, UsernameVideo}

VideoEnvelopes ==
    {[error |-> e, videos |-> vs, data |-> d, itemList |-> il,
      author_name |-> an, username |-> un] :
        e \in BOOLEAN,
        vs \in {NoItems, NullItems} \union {ListOf(l) : l \in Lists(EnvVideos)},
        d \in {[k |-> kind, videos |-> NoItems, list |-> <<>>] :
                  kind \in {"absent", "null", "int", "dict"}}
              \union {[k |-> "dict", videos |-> NullItems, list |-> <<>>],
                      [k |-> "dict", videos |-> ListOf(<<PlainVideo>>), list |-> <<>>],
                      [k |-> "list", videos |-> NoItems, list |-> <<MetaVideo>>]},
        il \in {NoItems, NullItems, ListOf(<<OwnAuthorVideo>>)},
        an \in {NoKey, "bob"},
        un \in {NoKey, "u"}}

NoEnvelope == [error |-> FALSE]

\* the items of a channel: published at each of the times, or without
\* publishedAt
DatedItems ==
    {[id |-> "v1",
      snippet |-> [FullSnippet EXCEPT !.publishedAt = pa],
      statistics |-> [viewCount |-> StrV(<<"7">>), likeCount |-> Absent,
                      commentCount |-> Absent]] :
        pa \in {NoKey} \union {Join(chars) : chars \in PublishedTexts}}

\* the clock at the call: 2024-01-02 10:00:00 UTC, and half a second later
Clocks == {[d |-> 19724, s |-> 36000, us |-> us] : us \in {0, 500000}}

\* the time frame codes
TimeFrames == 0..5

\* what the provider answers for an Instagram account: an error envelope,
\* an empty list of reels, no data, a reel, a reel with a count in words
AccountReels ==
    {[error |-> TRUE, data |-> [k |-> "absent", items |-> NoItems]],
     [error |-> FALSE, data |-> [k |-> "dict", items |-> ListOf(<<>>)]],
     [error |-> FALSE, data |-> [k |-> "null", items |-> NoItems]],
     [error |-> FALSE,
      data |-> [k |-> "dict",
                items |-> ListOf(<<[EmptyReel EXCEPT
                                       !.play_count = IntV(MaxCount),
                                       !.like_count = IntV(23)]>>)]],
     [error |-> FALSE,
      data |-> [k |-> "dict",
                items |-> ListOf(<<[EmptyReel EXCEPT
                                       !.like_count = S15k]>>)]]}

UserVideos(error, videos) ==
    [error |-> error, videos |-> videos,
     data |-> [k |-> "absent", videos |-> NoItems, list |-> <<>>],
     itemList |-> NoItems, author_name |-> NoKey, username |-> NoKey]

\* what the provider answers for a TikTok account: an error envelope, no
\* list of videos, an empty one, a video, a video whose views are null
AccountVideos ==
    {UserVideos(TRUE, NoItems), UserVideos(FALSE, NoItems),
     UserVideos(FALSE, ListOf(<<>>)), UserVideos(FALSE, ListOf(<<PlainVideo>>)),
     UserVideos(FALSE, ListOf(<<NullViewsVideo>>))}

\* process_platform_accounts(platform, accounts, 4, "Output JSON")
AccountsCall(platform, n) ==
    Call("process_platform_accounts", platform,
         SubSeq(<<"u1", "u2", "u3", "u4", "u5">>, 1, n),
         <<IntArg(4), StrArg("Output JSON")>>)

NoVideoData ==
    [id |-> NoKey,
     snippet |-> [k |-> "absent", title |-> NoKey, publishedAt |-> NoKey,
                  channelTitle |-> NoKey],
     statistics |-> [viewCount |-> Absent, likeCount |-> Absent,
                     commentCount |-> Absent]]

(***************************************************************************)
(* The state machine: one call per behaviour.                              *)
(***************************************************************************)
NoArgs == [platform |-> "", output |-> "", query |-> NoKey, timeframe |-> 4]

NoConfig ==
    [youtube_accounts |-> <<>>, instagram_accounts |-> <<>>,
     tiktok_accounts |-> <<>>]

NoOutcome == [status |-> "ready", exc |-> "", record |-> NoRecord,
              records |-> <<>>]

NoRequest == [function |-> "", platform |-> "", usernames |-> <<>>]

NoResult == [returned |-> "", written |-> FALSE]

\* no call of config_handler is made
NoConfiguration ==
    /\ config_json = NoConfig
    /\ previous = NoConfig
    /\ request = NoRequest
    /\ result = NoResult
    /\ changes = 0

NoMenu == [at |-> "", platform |-> "", usernames |-> <<>>]

NoClock == [d |-> 0, s |-> 0, us |-> 0]

NotComputed == [k |-> "", d |-> 0, s |-> 0, us |-> 0]

\* no time frame is involved
NoTimeFrame ==
    /\ now = NoClock
    /\ published_after = NotComputed
    /\ video_response = <<>>

\* interactive_menu is not running, no list of accounts is processed
NoInteraction ==
    /\ handler = "default_int_handler"
    /\ menu = NoMenu
    /\ pressed = ""
    /\ responses = <<>>
    /\ events = <<>>
    /\ NoTimeFrame

\* no extractor, processor or non-interactive run is involved
NoExtraction ==
    /\ record = NoRecord /\ records = <<>> /\ youtube_engagement = <<>>
    /\ first = NoOutcome
    /\ args = NoArgs
    /\ todo = <<>> /\ saved = {}
    /\ reel = EmptyReel /\ video = EmptyVideo /\ video_data = NoVideoData
    /\ response_data = NoEnvelope /\ passed = NoEnvelope
    /\ utcoffset = 0

Ready(o) ==
    /\ op = o
    /\ status = "ready"
    /\ exc = ""
    /\ record = NoRecord
    /\ records = <<>>
    /\ youtube_engagement = <<>>
    /\ calls = 0
    /\ first = NoOutcome
    /\ args = NoArgs
    /\ config = NoConfig
    /\ todo = <<>>
    /\ saved = {}
    /\ NoConfiguration
    /\ NoInteraction

\* the time zone matters to the videos that hold a time field only
ZonesOf(vid) == IF vid \in DateVideos THEN Offsets ELSE {0}

Init ==
    \/ /\ Ready("extract_reel_data")
       /\ reel \in Reels
       /\ video = EmptyVideo /\ video_data = NoVideoData
       /\ response_data = NoEnvelope /\ passed = NoEnvelope
       /\ utcoffset = 0
    \/ /\ Ready("extract_video_data")
       /\ video \in Videos
       /\ utcoffset \in ZonesOf(video)
       /\ reel = EmptyReel /\ video_data = NoVideoData
       /\ response_data = NoEnvelope /\ passed = NoEnvelope
    \/ /\ \E o \in {"get_channel_videos", "search_videos"} : Ready(o)
       /\ video_data \in YouTubeItems
       /\ reel = EmptyReel /\ video = EmptyVideo
       /\ response_data = NoEnvelope /\ passed = NoEnvelope
       /\ utcoffset = 0
    \/ /\ \E o \in {"process_user_reels", "process_search_reels"} : Ready(o)
       /\ response_data \in ReelEnvelopes
       /\ passed = response_data
       /\ reel = EmptyReel /\ video = EmptyVideo /\ video_data = NoVideoData
       /\ utcoffset = 0
    \/ /\ \E o \in {"process_user_videos", "process_search_videos"} : Ready(o)
       /\ response_data \in VideoEnvelopes
       /\ passed = response_data
       /\ reel = EmptyReel /\ video = EmptyVideo /\ video_data = NoVideoData
       /\ utcoffset = 0
    \/ /\ op = "main" /\ status = "ready" /\ exc = ""
       /\ args \in CommandLines
       /\ config \in Configs
       /\ todo = <<>> /\ saved = {}
       /\ record = NoRecord /\ records = <<>> /\ youtube_engagement = <<>>
       /\ calls = 0 /\ first = NoOutcome
       /\ reel = EmptyReel /\ video = EmptyVideo /\ video_data = NoVideoData
       /\ response_data = NoEnvelope /\ passed = NoEnvelope
       /\ utcoffset = 0
       /\ NoConfiguration
       /\ NoInteraction
    \/ /\ op = "config_handler" /\ status = "ready"
       /\ config_json \in ConfigFiles
       /\ previous = config_json
       /\ request = NoRequest /\ result = NoResult /\ changes = 0
       /\ config = NoConfig
       /\ calls = 0
       /\ exc = ""
       /\ NoExtraction
       /\ NoInteraction
    \/ /\ op = "interactive_menu" /\ status = "ready"
       /\ handler \in {"ctrl_c_handler", "default_int_handler"}
       /\ menu = NoMenu
       /\ pressed = ""
       /\ responses = <<>> /\ events = <<>>
       /\ NoTimeFrame
       /\ config_json \in ConfigFiles
       /\ previous = config_json
       /\ request = NoRequest /\ result = NoResult /\ changes = 0
       /\ config = NoConfig
       /\ calls = 0
       /\ exc = ""
       /\ NoExtraction
    \/ /\ op = "process_platform_accounts" /\ status = "ready"
       /\ \E n \in 1..MaxAccounts :
              \/ /\ responses \in [1..n -> AccountReels]
                 /\ todo = <<AccountsCall("instagram", n)>>
              \/ /\ responses \in [1..n -> AccountVideos]
                 /\ todo = <<AccountsCall("tiktok", n)>>
       /\ events = <<>>
       /\ exc = ""
       /\ calls = 0
       /\ config = NoConfig
       /\ record = NoRecord /\ records = <<>> /\ youtube_engagement = <<>>
       /\ first = NoOutcome
       /\ args = NoArgs
       /\ saved = {}
       /\ reel = EmptyReel /\ video = EmptyVideo /\ video_data = NoVideoData
       /\ response_data = NoEnvelope /\ passed = NoEnvelope
       /\ utcoffset = 0
       /\ NoConfiguration
       /\ handler = "default_int_handler" /\ menu = NoMenu /\ pressed = ""
       /\ NoTimeFrame
    \/ /\ op = "get_time_frame_info" /\ status = "ready"
       /\ now \in Clocks
       /\ \E code \in TimeFrames : args = [NoArgs EXCEPT !.timeframe = code]
       /\ video_response \in Lists(DatedItems)
       /\ published_after = NotComputed
       /\ exc = ""
       /\ calls = 0
       /\ config = NoConfig
       /\ record = NoRecord /\ records = <<>> /\ youtube_engagement = <<>>
       /\ first = NoOutcome
       /\ todo = <<>> /\ saved = {}
       /\ reel = EmptyReel /\ video = EmptyVideo /\ video_data = NoVideoData
       /\ response_data = NoEnvelope /\ passed = NoEnvelope
       /\ utcoffset = 0
       /\ NoConfiguration
       /\ handler = "default_int_handler" /\ menu = NoMenu /\ pressed = ""
       /\ responses = <<>> /\ events = <<>>

\* a call has ended: the first outcome is kept
Ended(outcome) ==
    /\ calls' = calls + 1
    /\ first' = IF calls = 0 THEN outcome ELSE first

\* the call ends: an extractor returns a dict, or raises
EndExtract(out) ==
    /\ status' = IF out.raised THEN "raised" ELSE "returned"
    /\ exc' = out.exc
    /\ record' = out.rec
    /\ Ended([status |-> IF out.raised THEN "raised" ELSE "returned",
               exc |-> out.exc, record |-> out.rec, records |-> <<>>])
    /\ UNCHANGED <<op, reel, video, video_data, response_data, passed, records,
                   utcoffset, youtube_engagement, args, config, todo, saved>>
    /\ UNCHANGED <<configuration, interactive, accounts_loop, cutoff>>

\* the call ends: a process_* function returns a list, or raises
EndProcess(out, after) ==
    /\ status' = IF out.raised THEN "raised" ELSE "returned"
    /\ exc' = out.exc
    /\ records' = IF out.raised THEN <<>> ELSE out.rec
    /\ response_data' = after
    /\ Ended([status |-> IF out.raised THEN "raised" ELSE "returned",
               exc |-> out.exc, record |-> NoRecord,
               records |-> IF out.raised THEN <<>> ELSE out.rec])
    /\ UNCHANGED <<op, reel, video, video_data, passed, record, utcoffset,
                   youtube_engagement, args, config, todo, saved>>
    /\ UNCHANGED <<configuration, interactive, accounts_loop, cutoff>>

\* the same, the walked list holding its items as the loop left them
EndVideos(out, branch) ==
    EndProcess(out, AfterCall(response_data, branch, out.items))

ExtractReelData ==
    /\ op = "extract_reel_data" /\ status = "ready"
    /\ EndExtract(extract_reel_data(reel))

ExtractVideoData ==
    /\ op = "extract_video_data" /\ status = "ready"
    /\ EndExtract(extract_video_data(video))

GetChannelVideos ==
    /\ op = "get_channel_videos" /\ status = "ready"
    /\ EndExtract(youtube_video_record(video_data, Return(ChannelTitle)))

SearchVideos ==
    /\ op = "search_videos" /\ status = "ready"
    /\ EndExtract(youtube_video_record(video_data,
                                       SearchChannelTitle(video_data)))

\* the Engagement Rate column of the CSV export of a YouTube record
\* (csv_exporter.py 122-125)
ExportYouTubeEngagement ==
    /\ op \in {"get_channel_videos", "search_videos"} /\ status = "returned"
    /\ "csv_exporter" \notin DOMAIN youtube_engagement
    /\ youtube_engagement' = youtube_engagement @@
           ("csv_exporter" :> csv_calculate_youtube_engagement(record))
    /\ UNCHANGED <<op, status, exc, reel, video, video_data, response_data,
                   passed, record, records, utcoffset, calls, first,
                   args, config, todo, saved>>
    /\ UNCHANGED <<configuration, interactive, accounts_loop, cutoff>>

\* the Engagement column of the terminal table of a YouTube record
\* (terminal_ui.py 631-634)
DisplayYouTubeEngagement ==
    /\ op \in {"get_channel_videos", "search_videos"} /\ status = "returned"
    /\ "terminal_ui" \notin DOMAIN youtube_engagement
    /\ youtube_engagement' = youtube_engagement @@
           ("terminal_ui" :> ui_calculate_youtube_engagement(record))
    /\ UNCHANGED <<op, status, exc, reel, video, video_data, response_data,
                   passed, record, records, utcoffset, calls, first,
                   args, config, todo, saved>>
    /\ UNCHANGED <<configuration, interactive, accounts_loop, cutoff>>

ProcessUserReels ==
    /\ op = "process_user_reels" /\ status = "ready"
    /\ EndProcess(process_user_reels(response_data), response_data)

ProcessSearchReels ==
    /\ op = "process_search_reels" /\ status = "ready"
    /\ EndProcess(process_search_reels(response_data), response_data)

ProcessUserVideos ==
    /\ op = "process_user_videos" /\ status = "ready"
    /\ EndVideos(process_user_videos(response_data), UserBranch(response_data))

ProcessSearchVideos ==
    /\ op = "process_search_videos" /\ status = "ready"
    /\ EndVideos(process_search_videos(response_data),
                 SearchBranch(response_data))

\* the caller calls the same function again on the same argument: the same
\* item, or the same envelope object as the earlier call left it
CallAgain ==
    /\ op \notin {"main", "config_handler", "interactive_menu",
                 "process_platform_accounts", "get_time_frame_info"}
    /\ status \in {"returned", "raised"}
    /\ calls < MaxCalls
    /\ status' = "ready"
    /\ exc' = ""
    /\ record' = NoRecord
    /\ records' = <<>>
    /\ youtube_engagement' = <<>>
    /\ passed' = response_data
    /\ UNCHANGED <<op, reel, video, video_data, response_data, utcoffset, calls,
                   first, args, config, todo, saved>>
    /\ UNCHANGED <<configuration, interactive, accounts_loop, cutoff>>

\* main.py 58-113, non-interactive: the calls that main makes, in order
Main ==
    /\ op = "main" /\ status = "ready"
    /\ todo' = MainCalls(args, config)
    /\ status' = IF MainCalls(args, config) = <<>> THEN "returned" ELSE "running"
    /\ UNCHANGED <<op, exc, reel, video, video_data, response_data, passed,
                   record, records, utcoffset, youtube_engagement, calls, first,
                   args, config, saved>>
    /\ UNCHANGED <<configuration, interactive, accounts_loop, cutoff>>

\* one call made by main ends: its files are written
EndCall(files) ==
    /\ saved' = saved \union files
    /\ todo' = Tail(todo)
    /\ status' = IF Tail(todo) = <<>> THEN "returned" ELSE "running"
    /\ UNCHANGED <<op, exc, reel, video, video_data, response_data, passed,
                   record, records, utcoffset, youtube_engagement, calls, first,
                   args, config>>
    /\ UNCHANGED <<configuration, interactive, accounts_loop, cutoff>>

\* the search finds results, or none
SearchPlatform ==
    /\ op = "main" /\ status = "running"
    /\ Head(todo).function = "search_platform"
    /\ \E found \in BOOLEAN : EndCall(search_platform(Head(todo), found))

\* each account has results, or none
ProcessPlatformAccounts ==
    /\ op = "main" /\ status = "running"
    /\ Head(todo).function = "process_platform_accounts"
    /\ \E found \in SUBSET (1..Len(Head(todo).accounts)) :
           EndCall(process_platform_accounts(Head(todo), found))

\* a call of config_handler ends: config.json is as the call left it
Configured(function, platform, usernames, given) ==
    /\ previous' = config_json
    /\ request' = [function |-> function, platform |-> platform,
                   usernames |-> usernames]
    /\ config_json' = given.config
    /\ result' = [returned |-> given.returned, written |-> given.written]
    /\ changes' = changes + 1

ConfigCall(function, platform, usernames, given) ==
    /\ Configured(function, platform, usernames, given)
    /\ status' = "returned"
    /\ UNCHANGED <<op, exc, calls, config, extraction, interactive, accounts_loop,
                   cutoff>>

UpdateConfigUsernames ==
    /\ op = "config_handler" /\ changes < MaxChanges
    /\ \E platform \in Platforms, new_usernames \in UsernameLists :
           ConfigCall("update_config_usernames", platform, new_usernames,
                      update_config_usernames(config_json, platform,
                                              new_usernames))

RemoveConfigUsernames ==
    /\ op = "config_handler" /\ changes < MaxChanges
    /\ \E platform \in Platforms, usernames_to_remove \in UsernameLists :
           ConfigCall("remove_config_usernames", platform, usernames_to_remove,
                      remove_config_usernames(config_json, platform,
                                              usernames_to_remove))

\* the menu goes to another prompt or operation
Goes(to, did) ==
    /\ menu' = to
    /\ pressed' = did
    /\ UNCHANGED <<op, exc, handler, extraction, accounts_loop, cutoff>>

\* menu_handler.py 21-44: the configuration is loaded, the menu is shown
InteractiveMenu ==
    /\ op = "interactive_menu" /\ status = "ready"
    /\ config' = config_json
    /\ status' = "running"
    /\ Goes(At("main", "", <<>>), "")
    /\ UNCHANGED <<calls, configuration>>

Running(at) == op = "interactive_menu" /\ status = "running" /\ menu.at = at

\* menu_handler.py 48-66: the choice at the main menu; Exit ends the loop
MainMenu ==
    /\ Running("main")
    /\ \E choice \in 1..5 :
           /\ status' = IF choice = 5 THEN "returned" ELSE "running"
           /\ Goes(At(MainChoice(choice), "", <<>>),
                   IF choice = 5 THEN "exit" ELSE "choice")
    /\ UNCHANGED <<calls, config, configuration>>

\* menu_handler.py 51-57, 68: the operation chosen ends
OperationCompleted ==
    /\ \E at \in {"search", "competitor", "spy"} : Running(at)
    /\ Goes(At("main", "", <<>>), pressed)
    /\ UNCHANGED <<status, calls, config, configuration>>

\* menu_handler.py 206-248 and 60-62: a platform is chosen, or Back to
\* main menu, after which interactive_menu loads config.json again
ManagePlatform ==
    /\ Running("manage")
    /\ \E platform_choice \in 1..4 :
           IF platform_choice = 4
           THEN /\ config' = config_json
                /\ Goes(At("main", "", <<>>), "choice")
           ELSE /\ config' = config
                /\ Goes(PlatformChoice(config_json,
                                       platform_map[platform_choice]),
                        "choice")
    /\ UNCHANGED <<status, calls, configuration>>

\* menu_handler.py 235-242: add, remove or back to the platform selection
ManageAction ==
    /\ Running("action")
    /\ \E action_choice \in 1..3 :
           Goes(CASE action_choice = 1 -> At("add", menu.platform, <<>>)
                  [] action_choice = 2 ->
                         At("remove", menu.platform, menu.usernames)
                  [] action_choice = 3 -> At("manage", "", <<>>),
                "choice")
    /\ UNCHANGED <<status, calls, config, configuration>>

\* menu_handler.py 250-284, handle_add_usernames: nothing entered, or
\* update_config_usernames is called
HandleAddUsernames ==
    /\ Running("add")
    /\ \E typed \in TypedUsernames :
           IF Entered(typed) = <<>>
           THEN UNCHANGED configuration
           ELSE /\ changes < MaxChanges
                /\ Configured("update_config_usernames", menu.platform,
                              Entered(typed),
                              update_config_usernames(config_json,
                                                      menu.platform,
                                                      Entered(typed)))
    /\ Goes(At("manage", "", <<>>), "input")
    /\ UNCHANGED <<status, calls, config>>

\* menu_handler.py 316-345, handle_remove_usernames: the numbers typed name
\* no username, or the removal is to be confirmed
HandleRemoveUsernames ==
    /\ Running("remove")
    /\ \E numbers \in TypedNumbers :
           Goes(IF Selected(menu.usernames, numbers) = <<>>
                THEN At("manage", "", <<>>)
                ELSE At("confirm", menu.platform,
                        Selected(menu.usernames, numbers)),
                "input")
    /\ UNCHANGED <<status, calls, config, configuration>>

\* menu_handler.py 345-359: confirmed, remove_config_usernames is called
ConfirmRemoval ==
    /\ Running("confirm")
    /\ \E confirm_choice \in 1..2 :
           IF confirm_choice = 1
           THEN /\ changes < MaxChanges
                /\ Configured("remove_config_usernames", menu.platform,
                              menu.usernames,
                              remove_config_usernames(config_json,
                                                      menu.platform,
                                                      menu.usernames))
           ELSE UNCHANGED configuration
    /\ Goes(At("manage", "", <<>>), "choice")
    /\ UNCHANGED <<status, calls, config>>

\* Ctrl+C: SIGINT runs the handler installed. ctrl_c_handler (main.py
\* 25-35) shows the exit screen and calls sys.exit(0); default_int_handler
\* raises KeyboardInterrupt where the program is
CtrlC ==
    /\ op = "interactive_menu" /\ status = "running"
    /\ pressed' = "ctrl_c"
    /\ IF handler = "ctrl_c_handler"
       THEN /\ status' = "raised"
            /\ exc' = "SystemExit"
            /\ menu' = At("exited", "", <<>>)
       ELSE /\ status' = "running"
            /\ exc' = exc
            /\ menu' = At(Interrupted(menu.at), "", <<>>)
    /\ UNCHANGED <<op, calls, config, configuration, handler, extraction,
                   accounts_loop, cutoff>>

\* one turn of the loop of process_platform_accounts: an exception of the
\* turn leaves the loop and is raised again (417-419), the last turn
\* returns
Turn(happened, out) ==
    /\ events' = events \o happened
    /\ status' = IF out.raised THEN "raised"
                 ELSE IF Fetched(events) + 1 = Len(responses) THEN "returned"
                 ELSE "running"
    /\ exc' = out.exc
    /\ UNCHANGED <<op, calls, config, extraction, configuration, interactive,
                   responses, cutoff>>

Processing(platform) ==
    /\ op = "process_platform_accounts"
    /\ status \in {"ready", "running"}
    /\ Head(todo).platform = platform

ProcessInstagramAccount ==
    /\ Processing("instagram")
    /\ Turn(InstagramTurn(Fetched(events) + 1,
                          process_user_reels(responses[Fetched(events) + 1])),
            process_user_reels(responses[Fetched(events) + 1]))

ProcessTikTokAccount ==
    /\ Processing("tiktok")
    /\ Turn(TikTokTurn(Fetched(events) + 1,
                       process_user_videos(responses[Fetched(events) + 1])),
            process_user_videos(responses[Fetched(events) + 1]))

\* platform_handler.py 247-248: the cutoff of the time frame
GetTimeFrameInfo ==
    /\ op = "get_time_frame_info" /\ status = "ready"
    /\ published_after' = get_time_frame_info(args.timeframe, now)
    /\ status' = "running"
    /\ UNCHANGED <<op, exc, calls, config, extraction, configuration,
                   interactive, accounts_loop, now, video_response>>

\* platform_handler.py 299-306: get_channel_videos with the cutoff
GetChannelVideosPublishedAfter ==
    /\ op = "get_time_frame_info" /\ status = "running"
    /\ status' = IF get_channel_videos(video_response, published_after).raised
                 THEN "raised" ELSE "returned"
    /\ exc' = get_channel_videos(video_response, published_after).exc
    /\ records' = get_channel_videos(video_response, published_after).rec
    /\ UNCHANGED <<op, calls, config, reel, video, video_data, response_data,
                   passed, record, utcoffset, youtube_engagement, first, args,
                   todo, saved, configuration, interactive, accounts_loop,
                   cutoff>>

Next ==
    \/ ExtractReelData
    \/ ExtractVideoData
    \/ GetChannelVideos
    \/ SearchVideos
    \/ ExportYouTubeEngagement
    \/ DisplayYouTubeEngagement
    \/ ProcessUserReels
    \/ ProcessSearchReels
    \/ ProcessUserVideos
    \/ ProcessSearchVideos
    \/ CallAgain
    \/ Main
    \/ SearchPlatform
    \/ ProcessPlatformAccounts
    \/ UpdateConfigUsernames
    \/ RemoveConfigUsernames
    \/ InteractiveMenu
    \/ MainMenu
    \/ OperationCompleted
    \/ ManagePlatform
    \/ ManageAction
    \/ HandleAddUsernames
    \/ HandleRemoveUsernames
    \/ ConfirmRemoval
    \/ CtrlC
    \/ ProcessInstagramAccount
    \/ ProcessTikTokAccount
    \/ GetTimeFrameInfo
    \/ GetChannelVideosPublishedAfter

Spec == Init /\ [][Next]_vars

(***************************************************************************)
(* Properties of the extractors and of the process_* functions.            *)
(***************************************************************************)
ReelProcessors == {"process_user_reels", "process_search_reels"}

VideoProcessors == {"process_user_videos", "process_search_videos"}

YouTubeBuilders == {"get_channel_videos", "search_videos"}

NonNegativeInt(v) == v.k = "int" /\ v.n >= 0

\* a raw count that is absent, null, a non-negative integer or a numeric
\* string
WellFormed(v) ==
    \/ v.k \in {"absent", "null"}
    \/ v.k = "int" /\ v.n >= 0
    \/ v.k = "str" /\ IsDigit(v.s)

\* a raw count that no integer can be parsed from
Malformed(v) == v.k = "str" /\ ~IsDigit(v.s)

TopKeys ==
    {"diggCount", "likes", "commentCount", "comments", "shareCount", "shares",
     "playCount", "views"}

ReelCountKeys ==
    {"play_count", "ig_play_count", "like_count", "reshare_count",
     "share_count", "comment_count"}

WellFormedReel(r) == \A f \in ReelCountKeys : WellFormed(r[f])

WellFormedVideo(vid) ==
    /\ \A f \in TopKeys : WellFormed(vid[f]) /\ WellFormed(vid.stats[f])
    /\ \A f \in DOMAIN vid.statistics \ {"k"} : WellFormed(vid.statistics[f])

WellFormedVideoData(vd) ==
    \A f \in DOMAIN vd.statistics : WellFormed(vd.statistics[f])

\* the candidate fields of a count that the video holds, by position in the
\* priority order, and the value of the first of them
Present(vid, paths) == {i \in 1..Len(paths) : Has(GetPath(vid, paths[i]))}

FirstPresent(vid, paths) == GetPath(vid, paths[FirstOf(Present(vid, paths))])

NonNull(vid, paths) ==
    {i \in 1..Len(paths) : GetPath(vid, paths[i]).k \in {"int", "str"}}

FirstNonNull(vid, paths) == GetPath(vid, paths[FirstOf(NonNull(vid, paths))])

\* C1: every count field of a record produced by one of the three
\* extractors from a raw item whose counts are absent, null, non-negative
\* integers or numeric strings is a non-negative integer.
C1_CountsAreNonNegativeIntegers ==
    /\ (status = "returned" /\ op = "extract_reel_data" /\ WellFormedReel(reel))
            => /\ NonNegativeInt(record.view_count)
               /\ NonNegativeInt(record.like_count)
               /\ NonNegativeInt(record.share_count)
               /\ NonNegativeInt(record.comment_count)
    /\ (status = "returned" /\ op = "extract_video_data" /\ WellFormedVideo(video))
            => /\ NonNegativeInt(record.views)
               /\ NonNegativeInt(record.likes)
               /\ NonNegativeInt(record.shares)
               /\ NonNegativeInt(record.comments)
    /\ (status = "returned" /\ op \in YouTubeBuilders
            /\ WellFormedVideoData(video_data))
            => /\ NonNegativeInt(record.viewCount)
               /\ NonNegativeInt(record.likeCount)
               /\ NonNegativeInt(record.commentCount)

\* round(100 * (likes + comments + shares) / views, 2), in hundredths: the
\* product is an exact integer, one float division follows
HundredTimesSumOverViews(likes, comments, shares, views) ==
    IF likes + comments + shares = 0 THEN 0
    ELSE Round2(FloatDiv(100 * (likes + comments + shares), views))

\* C2: the engagement_rate of every record of the Instagram and TikTok
\* extractors whose view count is greater than 0 equals
\* round(100 * (likes + comments + shares) / views, 2) of the record's own
\* counts.
C2_RateIsRoundOfHundredTimesSumOverViews ==
    /\ (status = "returned" /\ op = "extract_reel_data"
            /\ record.view_count.n > 0)
            => record.engagement_rate =
                   HundredTimesSumOverViews(record.like_count.n,
                       record.comment_count.n, record.share_count.n,
                       record.view_count.n)
    /\ (status = "returned" /\ op = "extract_video_data"
            /\ record.views.k = "int" /\ record.views.n > 0)
            => record.engagement_rate =
                   HundredTimesSumOverViews(record.likes.n, record.comments.n,
                       record.shares.n, record.views.n)

\* C3: a call of extract_reel_data or extract_video_data on a raw item whose
\* view count resolves to 0 returns a record with engagement_rate 0.0, and
\* does not raise, whatever the other counts of the item are.
C3_ZeroViewsGiveZeroRateWithoutRaising ==
    /\ (op = "extract_reel_data" /\ status # "ready"
            /\ ~ReelViewCount(reel).raised /\ ReelViewCount(reel).v = 0)
            => status = "returned" /\ record.engagement_rate = 0
    /\ (op = "extract_video_data" /\ status # "ready"
            /\ ~VideoViews(video).raised /\ VideoViews(video).rec = IntV(0))
            => status = "returned" /\ record.engagement_rate = 0

\* C4: a process_* call on an envelope that holds an "error" key returns the
\* empty list, does not raise, and touches no item of the envelope.
C4_ErrorEnvelopeGivesEmptyList ==
    (op \in ReelProcessors \union VideoProcessors /\ status # "ready"
        /\ passed.error)
        => status = "returned" /\ records = <<>> /\ response_data = passed

\* reached: process_user_videos has returned from an envelope that holds an
\* "error" key, an author_name and a non-empty videos list
C4_ErrorBesideVideosReturned ==
    /\ op = "process_user_videos" /\ status = "returned"
    /\ passed.error
    /\ passed.author_name # NoKey
    /\ passed.videos.k = "list" /\ Len(passed.videos.list) > 0
    /\ records = <<>>

\* no known location of the envelope holds a list
NoReelList(rd) == ~(rd.data.k = "dict" /\ rd.data.items.k = "list")

NoVideoList(rd) ==
    /\ rd.videos.k # "list"
    /\ rd.itemList.k # "list"
    /\ rd.data.k # "list"
    /\ ~(rd.data.k = "dict" /\ rd.data.videos.k = "list")

\* C5: a process_* call on an envelope without "error" key in which no known
\* location holds a list returns the empty list and does not raise.
C5_NoListGivesEmptyList ==
    /\ (op \in ReelProcessors /\ status # "ready" /\ ~passed.error
            /\ NoReelList(passed))
            => status = "returned" /\ records = <<>>
    /\ (op \in VideoProcessors /\ status # "ready" /\ ~passed.error
            /\ NoVideoList(passed))
            => status = "returned" /\ records = <<>>

\* the i-th record is what the extractor returns for the i-th item
ReelsExtracted(recs, items) ==
    /\ Len(recs) = Len(items)
    /\ \A i \in 1..Len(items) : extract_reel_data(items[i]) = Return(recs[i])

VideosExtracted(recs, items) ==
    /\ Len(recs) = Len(items)
    /\ \A i \in 1..Len(items) : extract_video_data(items[i]) = Return(recs[i])

\* C6: a process_* call on an envelope whose item list holds n items returns
\* n records, the i-th being the extraction of the i-th item (for TikTok,
\* of the item as the call handed it to the extractor).
C6_OneRecordPerItemInOrder ==
    /\ (op \in ReelProcessors /\ status # "ready" /\ ~passed.error
            /\ ~NoReelList(passed))
            => /\ status = "returned"
               /\ ReelsExtracted(records, passed.data.items.list)
    /\ (op = "process_user_videos" /\ status # "ready"
            /\ UserBranch(passed) # "none")
            => /\ status = "returned"
               /\ VideosExtracted(records,
                      Walked(response_data, UserBranch(passed)))
    /\ (op = "process_search_videos" /\ status # "ready"
            /\ SearchBranch(passed) \notin {"none", "raise"})
            => /\ status = "returned"
               /\ VideosExtracted(records,
                      Walked(response_data, SearchBranch(passed)))

\* C7: when process_user_videos returns from an envelope that holds a string
\* author_name and a videos list, the record of every item that holds no
\* "author" key has the envelope's author_name as username.
C7_AuthorNameIsBackFilled ==
    (op = "process_user_videos" /\ status = "returned" /\ ~passed.error
        /\ passed.videos.k = "list" /\ passed.author_name # NoKey)
        => /\ Len(records) = Len(passed.videos.list)
           /\ \A i \in 1..Len(records) :
                  passed.videos.list[i].author.k = "absent"
                      => records[i].username = passed.author_name

\* reached: two records returned, the first of an item with authorMeta and
\* username but no author, which got the envelope's author_name, the second
\* of an item with its own author, which kept it
C7_BackFilledBesideOwnAuthor ==
    /\ op = "process_user_videos" /\ status = "returned"
    /\ passed.author_name = "bob" /\ passed.username = "u"
    /\ passed.videos = ListOf(<<MetaVideo, OwnAuthorVideo>>)
    /\ Len(records) = 2
    /\ records[1].username = "bob"
    /\ records[2].username = "uid"

\* the count stored is the value of the first candidate the item holds
ChosenFirst(vid, paths, chosen) ==
    Present(vid, paths) # {} => chosen = FirstPresent(vid, paths)

\* C8: a record's count is the value of the highest-priority candidate field
\* that the item holds (a key that is present, whatever its value): for TikTok in the order statistics.number_of_*,
\* stats camelCase, stats plural, top-level camelCase, top-level plural; for
\* Instagram play_count before ig_play_count and reshare_count before
\* share_count.
C8_HighestPriorityPresentFieldIsChosen ==
    /\ (status = "returned" /\ op = "extract_video_data")
            => /\ ChosenFirst(video, LikesPaths, record.likes)
               /\ ChosenFirst(video, CommentsPaths, record.comments)
               /\ ChosenFirst(video, SharesPaths, record.shares)
               /\ ChosenFirst(video, ViewsPaths, record.views)
    /\ (status = "returned" /\ op = "extract_reel_data")
            => /\ Has(reel.play_count)
                      => record.view_count.n = IntOrZero(reel.play_count).v
               /\ (~Has(reel.play_count) /\ Has(reel.ig_play_count))
                      => record.view_count.n = IntOrZero(reel.ig_play_count).v
               /\ Has(reel.reshare_count)
                      => record.share_count.n = IntOrZero(reel.reshare_count).v
               /\ (~Has(reel.reshare_count) /\ Has(reel.share_count))
                      => record.share_count.n = IntOrZero(reel.share_count).v

\* reached: a record returned for a video that holds stats.diggCount and
\* stats.likes with different values, its likes being stats.diggCount
C8_CamelChosenOverPlural ==
    /\ status = "returned" /\ op = "extract_video_data"
    /\ Present(video, LikesPaths) = {2, 3}
    /\ video.stats.diggCount = IntV(2) /\ video.stats.likes = IntV(7)
    /\ record.likes = IntV(2)

\* C9: when the highest-priority candidate field the item holds is null and
\* a lower-priority synonym holds a non-null value, the record holds the
\* lower-priority value.
C9_NullFallsThroughToLowerPriority ==
    /\ (status = "returned" /\ op = "extract_reel_data"
            /\ reel.play_count = Null /\ reel.ig_play_count.k = "int")
            => record.view_count = reel.ig_play_count
    /\ (status = "returned" /\ op = "extract_video_data"
            /\ NonNull(video, LikesPaths) # {}
            /\ FirstPresent(video, LikesPaths) = Null)
            => record.likes = FirstNonNull(video, LikesPaths)

\* C10: a call of an extractor on a raw item with a count that no integer
\* can be parsed from returns a record in which that count is 0, and does
\* not raise.
C10_MalformedCountBecomesZero ==
    /\ (op = "extract_reel_data" /\ status # "ready"
            /\ Malformed(reel.like_count) /\ WellFormed(reel.play_count)
            /\ WellFormed(reel.comment_count))
            => status = "returned" /\ record.like_count = IntV(0)
    /\ (op = "extract_video_data" /\ status # "ready"
            /\ Present(video, LikesPaths) # {}
            /\ Malformed(FirstPresent(video, LikesPaths))
            /\ Present(video, ViewsPaths) = {})
            => status = "returned" /\ record.likes = IntV(0)
    /\ (op \in YouTubeBuilders /\ status # "ready"
            /\ Malformed(video_data.statistics.likeCount)
            /\ video_data.statistics.viewCount.k \in {"absent", "str"}
            /\ video_data.statistics.commentCount.k \in {"absent", "str"})
            => status = "returned" /\ record.likeCount = IntV(0)

\* the time field that the date is taken from
TimeField(vid) ==
    IF Has(vid.create_time) THEN vid.create_time ELSE vid.createTime

\* reading an ISO-8601 rendering YYYY-MM-DDTHH:MM:SS back: its shape, and
\* the seconds from 1970-01-01T00:00:00 to it
IsIsoShape(chars) ==
    /\ Len(chars) = 19
    /\ chars[5] = "-" /\ chars[8] = "-" /\ chars[11] = "T"
    /\ chars[14] = ":" /\ chars[17] = ":"
    /\ \A i \in (1..19) \ {5, 8, 11, 14, 17} : IsDigitChar(chars[i])

SecondsOfIso(chars) ==
    DaysFromCivil(ParseDigits(SubSeq(chars, 1, 4)),
                  ParseDigits(SubSeq(chars, 6, 7)),
                  ParseDigits(SubSeq(chars, 9, 10))) * 86400
        + ParseDigits(SubSeq(chars, 12, 13)) * 3600
        + ParseDigits(SubSeq(chars, 15, 16)) * 60
        + ParseDigits(SubSeq(chars, 18, 19))

\* C11: a call of extract_video_data on a video that holds create_time or
\* createTime returns a record; its upload_date is the ISO-8601 rendering
\* of the local time of the epoch when the value is an epoch integer, and
\* the empty string when the value is null, a string that is no number, or
\* an integer out of range.
C11_EpochIsRenderedOrLeftEmpty ==
    (op = "extract_video_data" /\ status # "ready"
        /\ (Has(video.create_time) \/ Has(video.createTime)))
        => /\ status = "returned"
           /\ TimeField(video).k = "int"
                  => /\ record.upload_date.k = "str"
                     /\ IsIsoShape(record.upload_date.s)
                     /\ SecondsOfIso(record.upload_date.s)
                            = TimeField(video).n + utcoffset
           /\ (TimeField(video).k \in {"null", "big"}
                    \/ Malformed(TimeField(video)))
                  => record.upload_date = StrV(<<>>)

\* the field names of the records
CanonicalFields ==
    {"author", "caption", "view_count", "like_count", "comment_count",
     "share_count", "url", "upload_date", "engagement_rate"}

InstagramFields ==
    {"username", "caption", "view_count", "like_count", "share_count",
     "comment_count", "url", "upload_date", "engagement_rate"}

TikTokFields ==
    {"username", "caption", "likes", "comments", "shares", "views", "url",
     "upload_date", "engagement_rate"}

YouTubeFields ==
    {"channelTitle", "title", "viewCount", "likeCount", "commentCount",
     "publishedAt", "url"}

Extractors ==
    {"extract_reel_data", "extract_video_data"} \union YouTubeBuilders

\* every record that the call returned has exactly the names of its
\* platform
RecordsAreNamed(instagram, tiktok, youtube) ==
    /\ (op \in Extractors /\ status = "returned")
           => DOMAIN record = IF op = "extract_reel_data" THEN instagram
                              ELSE IF op = "extract_video_data" THEN tiktok
                              ELSE youtube
    /\ (op \in ReelProcessors \union VideoProcessors /\ status = "returned")
           => \A i \in 1..Len(records) :
                 DOMAIN records[i] = IF op \in ReelProcessors THEN instagram
                                     ELSE tiktok

DigitStatistics(vd) ==
    {f \in {"viewCount", "likeCount", "commentCount"} :
        vd.statistics[f].k = "str" /\ IsDigit(vd.statistics[f].s)}

\* C13: a YouTube record holds, for every statistic given as a digit string,
\* the integer it denotes, and the engagement rate that csv_exporter and
\* terminal_ui calculate for the record is
\* round(100 * (likes + comments + 0) / views, 2) when views > 0 and 0
\* otherwise, the same in both modules and the same as the rate of the
\* Instagram and TikTok extractors for these counts with shares = 0.
C13_YouTubeCountsAndRate ==
    (op \in YouTubeBuilders /\ status = "returned")
        => /\ \A f \in DigitStatistics(video_data) :
                  record[f] = IntV(ParseDigits(video_data.statistics[f].s))
           /\ \A m \in DOMAIN youtube_engagement :
                  /\ youtube_engagement[m] =
                         IF record.viewCount.n > 0
                         THEN HundredTimesSumOverViews(record.likeCount.n,
                                  record.commentCount.n, 0, record.viewCount.n)
                         ELSE 0
                  /\ youtube_engagement[m] =
                         EngagementRate(record.likeCount.n,
                             record.commentCount.n, 0, record.viewCount.n)
           /\ \A m, n \in DOMAIN youtube_engagement :
                  youtube_engagement[m] = youtube_engagement[n]

\* the raw field that each count of an Instagram record is read from (the
\* first of its keys that the reel holds)
RawCounts(r) ==
    [view_count |-> IF Has(r.play_count) THEN r.play_count ELSE r.ig_play_count,
     like_count |-> r.like_count,
     share_count |-> IF Has(r.reshare_count) THEN r.reshare_count
                     ELSE r.share_count,
     comment_count |-> r.comment_count]

\* a raw value that is an integer or the decimal numeral of one
HasIntegerValue(v) == v.k = "int" \/ (v.k = "str" /\ IsDigit(v.s))

IntegerValue(v) == IF v.k = "int" THEN v.n ELSE ParseDigits(v.s)

\* the count c of the record rd is 0 for a null or absent raw field, and the
\* integer value of the raw field when it has one
CountFollowsRaw(rd, raw, c) ==
    /\ raw[c].k \in {"absent", "null"} => rd[c] = IntV(0)
    /\ HasIntegerValue(raw[c]) => rd[c] = IntV(IntegerValue(raw[c]))

\* C14: extract_reel_data returns, for every reel, a record in which a count
\* whose raw field is null or absent is 0 and every other count is the
\* integer value of its own raw field; play_count null with like_count 3
\* gives view_count 0, like_count 3 and engagement_rate 0.0.
C14_NullOrAbsentCountIsZero ==
    (op = "extract_reel_data" /\ status # "ready")
        => /\ status = "returned"
           /\ \A c \in DOMAIN RawCounts(reel) :
                  CountFollowsRaw(record, RawCounts(reel), c)
           /\ (reel.play_count = Null /\ reel.like_count = IntV(3))
                  => /\ record.view_count = IntV(0)
                     /\ record.like_count = IntV(3)
                     /\ record.engagement_rate = 0

\* a TikTok item without download_url, video.playAddr, webVideoUrl and
\* shareUrl
NoDirectUrl(vid) ==
    /\ vid.download_url = NoKey
    /\ vid.video.k # "dict" \/ vid.video.playAddr = NoKey
    /\ vid.webVideoUrl = NoKey
    /\ vid.shareUrl = NoKey

\* the identifier of the item: video_id, else id (the first that is not
\* null), or Absent
Identifier(vid) ==
    IF vid.video_id.k \in {"int", "str"} THEN vid.video_id
    ELSE IF vid.id.k \in {"int", "str"} THEN vid.id
    ELSE Absent

IdentifierText(v) == IF v.k = "int" THEN ToString(v.n) ELSE Join(v.s)

\* C15: for a TikTok item with no direct URL field, extract_video_data
\* returns a record whose url is
\* https://www.tiktok.com/@<username of the record>/video/<video_id, else
\* id>, and whose url is "" when neither a username nor an identifier is
\* resolved; it does not raise.
C15_UrlIsComposedFromUsernameAndId ==
    (op = "extract_video_data" /\ status # "ready" /\ NoDirectUrl(video))
        => /\ status = "returned"
           /\ Has(Identifier(video))
                  => record.url = "https://www.tiktok.com/@" \o record.username
                                      \o "/video/"
                                      \o IdentifierText(Identifier(video))
           /\ (~Has(Identifier(video)) /\ record.username = "")
                  => record.url = ""

\* the known locations of the item list, in priority order
SearchLocations == <<"videos", "data.videos", "data", "itemList">>

UserLocations == <<"videos", "data", "itemList">>

HoldsList(rd, location) ==
    CASE location = "videos" -> rd.videos.k = "list"
      [] location = "data.videos" -> rd.data.k = "dict" /\ rd.data.videos.k = "list"
      [] location = "data" -> rd.data.k = "list"
      [] location = "itemList" -> rd.itemList.k = "list"

ItemsAt(rd, location) ==
    CASE location = "videos" -> rd.videos.list
      [] location = "data.videos" -> rd.data.videos.list
      [] location = "data" -> rd.data.list
      [] location = "itemList" -> rd.itemList.list

Holding(rd, locations) ==
    {i \in 1..Len(locations) : HoldsList(rd, locations[i])}

\* the outcome of the call is that of walking the list at one location: the
\* records are the extractions of its items, or the exception is that of
\* one of its items
OnlyWalked(items) ==
    /\ status = "returned" => VideosExtracted(records, items)
    /\ status = "raised"
           => \E i \in 1..Len(items) : extract_video_data(items[i]) = Raise(exc)

\* an envelope without "error" key that holds lists at several of the
\* locations is processed as the list at the first of them
FirstLocationWins(locations) ==
    (status # "ready" /\ ~passed.error
        /\ Cardinality(Holding(passed, locations)) > 1)
        => OnlyWalked(ItemsAt(response_data,
                              locations[FirstOf(Holding(passed, locations))]))

\* C16: when an envelope holds item lists at more than one known location,
\* process_search_videos uses only the first of videos, data.videos, data
\* (a list), itemList that holds a list, and process_user_videos only the
\* first of videos, data (a list), itemList: the items at the other
\* locations contribute no records.
C16_FirstLocationWins ==
    /\ op = "process_search_videos" => FirstLocationWins(SearchLocations)
    /\ op = "process_user_videos" => FirstLocationWins(UserLocations)

\* a search envelope with lists at data.videos and itemList gave the record
\* of data.videos only
C16_DataVideosChosenOverItemList ==
    /\ op = "process_search_videos" /\ status = "returned"
    /\ ~passed.error
    /\ Holding(passed, SearchLocations) = {2, 4}
    /\ passed.data.videos.list # passed.itemList.list
    /\ VideosExtracted(records, passed.data.videos.list)

\* the item names its author itself: the extractor resolves a username from
\* the item as the envelope holds it
OwnIdentity(vid) ==
    ~VideoUsername(vid).raised /\ VideoUsername(vid).rec # ""

\* C17: when process_user_videos returns from an envelope that holds
\* author_name or username and a videos list, the record of every item that
\* carries its own author identity (author, authorMeta or username) has the
\* item's own value as username, not the envelope's.
C17_OwnIdentityIsKept ==
    (op = "process_user_videos" /\ status = "returned" /\ ~passed.error
        /\ passed.videos.k = "list"
        /\ (passed.author_name # NoKey \/ passed.username # NoKey))
        => /\ Len(records) = Len(passed.videos.list)
           /\ \A i \in 1..Len(records) :
                  OwnIdentity(passed.videos.list[i])
                      => records[i].username
                             = VideoUsername(passed.videos.list[i]).rec

\* how the call that has just ended ended
Outcome == [status |-> status, exc |-> exc, record |-> record,
            records |-> records]

\* C18: a second call of the same extractor on the same item, or of the same
\* process_* function on the same envelope, ends as the first call did: with
\* a value-identical record or list of records (or the same exception).
C18_SecondCallGivesTheSame ==
    (calls >= 2 /\ status # "ready") => Outcome = first

\* reached: process_user_videos returned twice from an envelope whose first
\* call wrote author_name into an item
C18_BackFilledEnvelopeProcessedTwice ==
    /\ op = "process_user_videos" /\ calls = 2 /\ status = "returned"
    /\ passed.author_name = "bob"
    /\ Len(records) = 2
    /\ records[1].username = "bob"
    /\ passed.videos.list[1].author = StrAuthor("bob")
    /\ first.records = records

\* the record of one item by itself: the extraction of the item, after the
\* envelope-level context fields have been written into it
ContextFilled(rd, branch, vid) ==
    IF branch # "videos" THEN vid
    ELSE IF op = "process_user_videos" THEN UserBackFill(rd, vid)
    ELSE SearchBackFill(rd, vid)

\* every item whose own extraction gives a record has that record at its
\* place in the list returned, whatever the other items are
ReelsAreIndependent(items) ==
    \A i \in 1..Len(items) :
        ~extract_reel_data(items[i]).raised
            => /\ status = "returned"
               /\ Len(records) = Len(items)
               /\ records[i] = extract_reel_data(items[i]).rec

VideosAreIndependent(rd, branch, items) ==
    \A i \in 1..Len(items) :
        ~extract_video_data(ContextFilled(rd, branch, items[i])).raised
            => /\ status = "returned"
               /\ Len(records) = Len(items)
               /\ records[i]
                      = extract_video_data(ContextFilled(rd, branch, items[i])).rec

\* C19: within one call of a process_* function the record produced for
\* item i is determined by item i and the envelope-level context fields
\* alone: it is the same whatever the other items of the list are.
C19_RecordDependsOnItsItemOnly ==
    /\ (op \in ReelProcessors /\ status # "ready" /\ ~passed.error
            /\ ~NoReelList(passed))
            => ReelsAreIndependent(passed.data.items.list)
    /\ (op = "process_user_videos" /\ status # "ready"
            /\ UserBranch(passed) # "none")
            => VideosAreIndependent(passed, UserBranch(passed),
                                    Walked(passed, UserBranch(passed)))
    /\ (op = "process_search_videos" /\ status # "ready"
            /\ SearchBranch(passed) \notin {"none", "raise"})
            => VideosAreIndependent(passed, SearchBranch(passed),
                                    Walked(passed, SearchBranch(passed)))

\* C20: in a non-interactive run of main, for every platform, for --query
\* searches and for account processing, every JSON result file is saved in
\* the directory given by --output.
C20_JsonIsSavedInOutput ==
    op = "main" => \A f \in saved : f.directory = args.output

\* C25: process_user_videos and process_search_videos leave their input
\* unchanged: after the call the envelope and every raw item in it have the
\* keys and values they had when the call was made.
C25_InputIsLeftUnchanged ==
    (op \in VideoProcessors /\ status # "ready") => response_data = passed

(***************************************************************************)
(* The calls of config_handler.                                            *)
(***************************************************************************)
Updated == op = "config_handler" /\ request.function = "update_config_usernames"

Removed == op = "config_handler" /\ request.function = "remove_config_usernames"

\* the list of the platform of the call, before and after it
ListBefore == current_usernames(previous, request.platform)

ListAfter == current_usernames(config_json, request.platform)

\* the lists of the other platforms are what they were
OtherListsUnchanged ==
    \A platform \in Platforms \ {request.platform} :
        /\ platform_key(platform) \in DOMAIN config_json
               <=> platform_key(platform) \in DOMAIN previous
        /\ current_usernames(config_json, platform)
               = current_usernames(previous, platform)

\* the i-th new username, stripped, is not empty, not in the list and not
\* the same as an earlier new username
FreshAt(new_usernames, usernames, i) ==
    /\ strip(new_usernames[i]) # <<>>
    /\ ~In(strip(new_usernames[i]), usernames)
    /\ \A j \in 1..(i - 1) : strip(new_usernames[j]) # strip(new_usernames[i])

\* the fresh usernames from the i-th on, stripped, in input order
RECURSIVE FreshFrom(_, _, _)
FreshFrom(new_usernames, usernames, i) ==
    IF i > Len(new_usernames) THEN <<>>
    ELSE (IF FreshAt(new_usernames, usernames, i)
          THEN <<strip(new_usernames[i])>>
          ELSE <<>>) \o FreshFrom(new_usernames, usernames, i + 1)

\* C22: update_config_usernames(platform, new) leaves the platform's list
\* equal to its previous list followed by each stripped, non-empty new
\* username that was not already present, in input order and each added
\* once; the lists of the other platforms are unchanged and the call
\* returns True.
C22_UpdateAppendsFreshUsernames ==
    Updated =>
        /\ ListAfter = ListBefore \o FreshFrom(request.usernames, ListBefore, 1)
        /\ OtherListsUnchanged
        /\ result.returned = "True"

\* a name passed twice, bare and padded, has been added once
C22_RepeatedNameIsAddedOnce ==
    /\ Updated
    /\ request.usernames = <<<<"c">>, <<"c", " ">>>>
    /\ ListBefore = <<<<"a">>, <<"b">>>>
    /\ ListAfter = <<<<"a">>, <<"b">>, <<"c">>>>

\* the usernames of the list are those of the other list, in its order,
\* with some left out
RECURSIVE IsSubsequence(_, _)
IsSubsequence(usernames, of) ==
    IF usernames = <<>> THEN TRUE
    ELSE IF of = <<>> THEN FALSE
    ELSE IF Head(usernames) = Head(of)
    THEN IsSubsequence(Tail(usernames), Tail(of))
    ELSE IsSubsequence(usernames, Tail(of))

\* C23: after remove_config_usernames(platform, U) returns True, no username
\* of U remains in the platform's list, the remaining usernames keep their
\* order and the other platforms' lists are unchanged; when the platform
\* has no usernames the call returns False and config.json is not
\* rewritten.
C23_RemovedUsernamesAreGone ==
    Removed =>
        /\ result.returned = "True" =>
               /\ \A i \in 1..Len(request.usernames) :
                      ~In(request.usernames[i], ListAfter)
               /\ IsSubsequence(ListAfter, ListBefore)
               /\ OtherListsUnchanged
        /\ ListBefore = <<>> =>
               /\ result.returned = "False"
               /\ ~result.written
               /\ config_json = previous

\* the username is empty or made of whitespace
Blank(username) ==
    \A i \in 1..Len(username) : username[i] \in Whitespace

\* no list names an account twice or holds a blank entry
Clean(cfg) ==
    \A key \in DOMAIN cfg :
        \A i \in 1..Len(cfg[key]) :
            /\ ~Blank(cfg[key][i])
            /\ \A j \in 1..(i - 1) : cfg[key][j] # cfg[key][i]

\* C24: from a config whose lists hold no duplicate and no empty or
\* whitespace-only entry, every call of update_config_usernames and of
\* remove_config_usernames leaves such a config, so that every sequence of
\* calls does.
C24_CleanListsStayClean ==
    (op = "config_handler" /\ Clean(previous)) => Clean(config_json)

\* a username was added by an earlier call and this call removed one, all
\* lists clean
C24_CleanAfterUpdateAndRemove ==
    /\ Removed
    /\ Clean(previous)
    /\ config_json # previous
    /\ In(<<"c">>, current_usernames(config_json, "tiktok"))

(***************************************************************************)
(* The interactive menu.                                                   *)
(***************************************************************************)
\* C21: while the interactive menu started from main is running, Ctrl+C
\* during a menu operation cancels the operation and returns to the main
\* menu prompt; the menu loop ends only when the user chooses Exit.
C21_CtrlCReturnsToMainMenu ==
    (op = "interactive_menu" /\ handler = "ctrl_c_handler") =>
        /\ pressed = "ctrl_c" => (status = "running" /\ menu.at = "main")
        /\ menu.at = "exited" => pressed = "exit"

ProcessingAccounts(platforms) ==
    op = "process_platform_accounts" /\ Head(todo).platform \in platforms

\* the provider returned an error envelope, or an envelope without items
WithoutItems(response) ==
    \/ response.error
    \/ IF "videos" \in DOMAIN response
       THEN response.videos.list = <<>>
       ELSE response.data.k # "dict" \/ response.data.items.list = <<>>

\* the positions of the events of the kind for the account
EventsAt(kinds, account) ==
    {k \in 1..Len(events) :
        events[k].kind \in kinds /\ events[k].account = account}

\* C27: in process_platform_accounts, an account for which the provider
\* returns an error envelope or no items is skipped without a JSON or CSV
\* file written for it, and every later account of the list is still
\* processed, in list order.
C27_EmptyAccountIsSkipped ==
    (ProcessingAccounts({"instagram", "tiktok"})
        /\ status \in {"returned", "raised"}) =>
        \A i \in 1..Len(responses) :
            WithoutItems(responses[i]) =>
                /\ EventsAt({"json", "csv"}, i) = {}
                /\ \A j \in (i + 1)..Len(responses) :
                       /\ EventsAt({"fetch"}, j) # {}
                       /\ \A k \in EventsAt({"fetch"}, j - 1),
                             l \in EventsAt({"fetch"}, j) : k < l

\* C28: when TikTok accounts are processed, one delay of 2 seconds lies
\* between every two consecutive fetches and none before the first: the
\* fetch for account i+1 comes right after the delay, and the delay after
\* everything done for account i, also when account i had no videos.
C28_DelayBetweenFetches ==
    ProcessingAccounts({"tiktok"}) =>
        \A k \in 1..Len(events) :
            /\ events[k].kind = "fetch" =>
                   IF events[k].account = 1 THEN k = 1
                   ELSE /\ k > 1
                        /\ events[k - 1] = Event("sleep", events[k].account, 2)
                        /\ \A l \in 1..Len(events) :
                               events[l].account < events[k].account
                                   => l < k - 1
            /\ events[k].kind = "sleep" =>
                   /\ k < Len(events)
                   /\ events[k + 1].kind = "fetch"

\* the first account had no videos and the second was fetched after the
\* delay
C28_DelayAfterAccountWithoutVideos ==
    /\ ProcessingAccounts({"tiktok"})
    /\ WithoutItems(responses[1])
    /\ Len(events) >= 3
    /\ events[1].kind = "fetch"
    /\ events[2].kind = "sleep"
    /\ events[3] = Event("fetch", 2, 0)

(***************************************************************************)
(* The time frame.                                                         *)
(***************************************************************************)
\* the days that the time frame of the code reaches back
DaysBack == [code \in 1..3 |-> <<1, 7, 30>>[code]]

\* the publication time of a video returned
PublishedAt(rec) == strptime(Characters(rec.publishedAt)).rec

\* the second since 1970-01-01 00:00:00 UTC that the datetime lies in
SecondOf(datetime) == datetime.d * 86400 + datetime.s

\* the datetime lies before the cutoff
Before(datetime, after) ==
    \/ SecondOf(datetime) < SecondOf(after)
    \/ SecondOf(datetime) = SecondOf(after) /\ datetime.us < after.us

\* C29: get_time_frame_info maps code 1 to a cutoff of now minus 1 day,
\* code 2 to now minus 7 days, code 3 to now minus 30 days and any other
\* code to no cutoff; get_channel_videos returns no video published
\* earlier than the cutoff and, without a cutoff, filters out none.
C29_TimeFrameCutoff ==
    (op = "get_time_frame_info" /\ status # "ready") =>
        /\ IF args.timeframe \in 1..3
           THEN published_after
                    = DateTime(now.d - DaysBack[args.timeframe], now.s, now.us)
           ELSE published_after = None
        /\ status = "returned" =>
               IF published_after = None
               THEN Len(records) = Len(video_response)
               ELSE \A i \in 1..Len(records) :
                        ~Before(PublishedAt(records[i]), published_after)

\* of a video published at the cutoff and one a second before it, the
\* first is returned
C29_VideoAtTheCutoffIsKept ==
    /\ op = "get_time_frame_info" /\ status = "returned"
    /\ args.timeframe = 1
    /\ Len(video_response) = 2
    /\ video_response[1].snippet.publishedAt
           = Join(IsoZ(2024, 1, 1, 9, 59, 59))
    /\ Len(records) = 1
    /\ PublishedAt(records[1]) = published_after

====
